---------------------------- MODULE Spec2Model ----------------------------
(***************************************************************************)
(* State-machine model of the flutter_embedder host: the engine bridge     *)
(* (platform messages, vsync, posted tasks), the text-input keyboard, the  *)
(* compositor and the standard message codec.                             *)
(*                                                                         *)
(* Option<T> is modelled as a sequence: None == <<>>, Some(v) == <<v>>.    *)
(***************************************************************************)
EXTENDS Integers, Sequences, FiniteSets, TLC

VARIABLES
    \* ---- engine bridge (flutter_application.rs, task_runner.rs) ----
    queue,          \* winit user-event queue: closures sent with send_event
    nextSeq,        \* number of closures enqueued so far
    lastRun,        \* the closure run last by the UI thread
    nextHandle,     \* number of platform messages the engine has delivered
    respCount,      \* per response handle: calls of SendPlatformMessageResponse
    keyboard_client,\* FlutterApplication.keyboard_client / Keyboard.client
    input_action,   \* Keyboard.input_action
    editing_state,  \* FlutterApplication.editing_state / Keyboard.editing_state
    engineCalls,    \* engine entry points called by the most recent step
    lastThread,     \* thread that performed the most recent step
    time,           \* FlutterEngineGetCurrentTime()
    timers,         \* tokio tasks spawned by post_task_callback
    tasks,          \* per posted FlutterTask: bookkeeping of its life
    channel_rx,     \* TaskRunner: mpsc channel of posted tasks
    local_timers,   \* TaskRunner: spawn_local sleepers
    runner_engine,  \* TaskRunner: engine handle received through new_sender
    nextBaton,      \* number of vsync requests issued by the engine
    \* ---- keyboard (flutter_application.rs, keyboard.rs) ----
    keyboard_modifiers, \* FlutterApplication.keyboard_modifiers / Keyboard.modifiers
    clipboard,      \* system clipboard text, None when it holds no text
    outbox,         \* text-input messages sent to the engine by the last step
    panicked,       \* the process has panicked
    \* ---- compositor (compositor.rs, flutter_application/compositor.rs) ----
    records,        \* per heap address: boxes allocated there and boxes freed
    held,           \* addresses of the backing stores the engine holds
    frame,          \* what the most recent present_layers_callback did
    lastCallback,   \* the compositor callback of the most recent step
    viewport_size,  \* FlutterApplicationUserData.viewport_size
    previous_viewport_size, \* Compositor.previous_viewport_size
    surface_size,   \* size the surface was last configured with
    present,        \* the present_layers_callback call in progress
    handler_lock,   \* thread holding the platform_views_handler mutex
    resizing,       \* a viewport_size.set(..) that has stored only the width
    \* ---- standard message codec (message_codec.rs) ----
    message,        \* the value a sender encodes, None when there is none
    input,          \* Deserializer.input: the buffer handed to from_slice
    result,         \* what from_slice returned for it
    \* ---- platform views (platform_views.rs) ----
    registered_view_types, \* PlatformViewsHandler.registered_view_types
    views,          \* PlatformViewsHandler.views
    nextView,       \* number of views the generators have built
    viewCall,       \* the PlatformViewsHandler method the most recent step ran
    response,       \* what handle_platform_views_message returned last
    rendered,       \* PlatformView::render calls made by the most recent step
    logged,         \* log::error! lines written by the most recent step
    \* ---- pointers (flutter_application.rs) ----
    mice,           \* FlutterApplication.mice
    current_mouse_id, \* FlutterApplication.current_mouse_id
    engine_pointers \* the engine's pointer devices: what the events it was
                    \* sent have added and removed

bridgeVars == <<queue, nextSeq, lastRun, nextHandle, respCount, keyboard_client,
                input_action, editing_state, engineCalls, lastThread, time,
                timers, tasks, channel_rx, local_timers, runner_engine,
                nextBaton>>

keyVars == <<keyboard_modifiers, clipboard, outbox, panicked>>

compVars == <<records, held, frame, lastCallback, viewport_size,
              previous_viewport_size, surface_size, present, handler_lock,
              resizing>>

codecVars == <<message, input, result>>

viewVars == <<registered_view_types, views, nextView, viewCall, response,
              rendered, logged>>

pointerVars == <<mice, current_mouse_id, engine_pointers>>

vars == <<bridgeVars, keyVars, compVars, codecVars, viewVars, pointerVars>>

---------------------------------------------------------------------------
\* Bounds of the model
\* vsync requests issued by the engine
MaxVsync == 1
\* platform messages delivered by the engine
MaxMsgs == 2
\* tasks posted by the engine
MaxTasks == 2
\* engine clock ticks
MaxTime == 3
\* heap addresses a backing-store record can be allocated at
MaxHandles == 2
\* backing stores the engine asks for
MaxCreates == 3
\* layers the engine hands to one present call
MaxLayers == 2
\* length of the message buffers that are enumerated exhaustively
MaxBufLen == 2

None == <<>>
Some(v) == <<v>>
IsSome(o) == o # <<>>
Unwrap(o) == o[1]

FLUTTER_TEXTINPUT_CHANNEL == "flutter/textinput"

\* A C string handed over by the engine: its bytes may not be valid UTF-8.
Channels ==
    { [utf8 |-> TRUE,  name |-> FLUTTER_TEXTINPUT_CHANNEL],
      [utf8 |-> TRUE,  name |-> "flutter/platform"],
      [utf8 |-> FALSE, name |-> "\\xff"] }

\* CStr::to_str
to_str(channel) == IF channel.utf8 THEN Some(channel.name) ELSE None

TextEditingValue_default ==
    [text |-> <<>>, selection_base |-> None, selection_extent |-> None]

TextInputMethods ==
    { "TextInput.setClient", "TextInput.show", "TextInput.setEditingState",
      "TextInput.clearClient", "TextInput.hide" }

from_slice_TextInput_lenient(data) ==
    IF data.method \in TextInputMethods THEN Some(data)
    ELSE Some([method |-> "TextInput.clearClient"])

\* serde_json::from_slice::<TextInput>: Ok(value) for a payload naming one of
\* the five methods of enum TextInput, Err otherwise.
from_slice_TextInput(data) ==
    IF data.method \in TextInputMethods THEN Some(data) ELSE None

\* Keyboard::handle_textinput_message and the match in the deferred closure
\* of platform_message_callback: the new <<client, action, editing state>>.
handle_textinput_message(textinput, client, action, state) ==
    CASE textinput.method = "TextInput.setClient" ->
            <<Some(textinput.client), textinput.input_action, state>>
      [] textinput.method = "TextInput.clearClient" ->
            <<None, action, state>>
      [] textinput.method = "TextInput.setEditingState" ->
            <<client, action, textinput.state>>
      [] OTHER -> <<client, action, state>>

Response(handle) == [call |-> "FlutterEngineSendPlatformMessageResponse",
                     arg |-> handle]

GetCurrentTime == [call |-> "FlutterEngineGetCurrentTime", arg |-> 0]
RunTaskCall(task) == [call |-> "FlutterEngineRunTask", arg |-> task]

\* EventLoopProxy::send_event: append to the user-event queue
send_event(q, closure) == Append(q, closure)

---------------------------------------------------------------------------
\* Engine thread: FlutterApplication::platform_message_callback.  Copies
\* channel, response handle and payload into a closure and sends it.
platform_message_callback(channel, data) ==
    /\ nextHandle < MaxMsgs
    /\ nextHandle' = nextHandle + 1
    /\ nextSeq' = nextSeq + 1
    /\ queue' = send_event(queue, [kind |-> "platform_message",
                                   seq |-> nextSeq + 1,
                                   response_handle |-> nextHandle + 1,
                                   channel |-> to_str(channel),
                                   data |-> data])
    /\ engineCalls' = <<>>
    /\ lastThread' = "engine"
    /\ UNCHANGED <<keyVars, compVars, codecVars, viewVars, pointerVars>>
    /\ UNCHANGED <<lastRun, respCount, keyboard_client, input_action,
                   editing_state, time, timers, tasks, channel_rx, local_timers,
                   runner_engine, nextBaton>>

vsync_callback_inline ==
    /\ nextBaton < MaxVsync
    /\ nextBaton' = nextBaton + 1
    /\ engineCalls' = <<GetCurrentTime,
                        [call |-> "FlutterEngineOnVsync", arg |-> nextBaton + 1]>>
    /\ lastThread' = "engine"
    /\ UNCHANGED <<keyVars, compVars, codecVars, viewVars, pointerVars>>
    /\ UNCHANGED <<queue, nextSeq, lastRun, nextHandle, respCount, keyboard_client,
                   input_action, editing_state, time, timers, tasks, channel_rx,
                   local_timers, runner_engine>>

\* Engine thread: FlutterApplication::vsync_callback
vsync_callback ==
    /\ nextBaton < MaxVsync
    /\ nextBaton' = nextBaton + 1
    /\ nextSeq' = nextSeq + 1
    /\ queue' = send_event(queue, [kind |-> "vsync", seq |-> nextSeq + 1,
                                   baton |-> nextBaton + 1])
    /\ engineCalls' = <<>>
    /\ lastThread' = "engine"
    /\ UNCHANGED <<keyVars, compVars, codecVars, viewVars, pointerVars>>
    /\ UNCHANGED <<lastRun, nextHandle, respCount, keyboard_client, input_action,
                   editing_state, time, timers, tasks, channel_rx, local_timers,
                   runner_engine>>

RunPlatformMessage_silent(c) ==
    LET h == c.response_handle
        isText == IsSome(c.channel) /\ Unwrap(c.channel) = "flutter/textinput"
        parsed == from_slice_TextInput(c.data)
        new == IF isText /\ IsSome(parsed)
               THEN handle_textinput_message(Unwrap(parsed), keyboard_client,
                                             input_action, editing_state)
               ELSE <<keyboard_client, input_action, editing_state>>
    IN  /\ keyboard_client' = new[1]
        /\ input_action' = new[2]
        /\ editing_state' = new[3]
        /\ IF isText /\ ~IsSome(parsed)
           THEN /\ respCount' = respCount
                /\ engineCalls' = <<>>
           ELSE /\ respCount' = [respCount EXCEPT ![h] = @ + 1]
                /\ engineCalls' = <<Response(h)>>
        /\ UNCHANGED tasks

\* The deferred closure of platform_message_callback, run on the UI thread.
RunPlatformMessage(c) ==
    LET h == c.response_handle
        isText == IsSome(c.channel) /\ Unwrap(c.channel) = "flutter/textinput"
        parsed == from_slice_TextInput(c.data)
        new == IF isText /\ IsSome(parsed)
               THEN handle_textinput_message(Unwrap(parsed), keyboard_client,
                                             input_action, editing_state)
               ELSE <<keyboard_client, input_action, editing_state>>
    IN  /\ keyboard_client' = new[1]
        /\ input_action' = new[2]
        /\ editing_state' = new[3]
        /\ respCount' = [respCount EXCEPT ![h] = @ + 1]
        /\ engineCalls' = <<Response(h)>>
        /\ UNCHANGED tasks

\* The deferred closure of vsync_callback
RunVsync(c) ==
    /\ engineCalls' = <<GetCurrentTime,
                        [call |-> "FlutterEngineOnVsync", arg |-> c.baton]>>
    /\ UNCHANGED <<keyboard_client, input_action, editing_state, respCount, tasks>>

\* The deferred closure of post_task_callback (both branches send the same)
RunTask(c) ==
    /\ engineCalls' = <<RunTaskCall(c.task)>>
    /\ tasks' = [tasks EXCEPT ![c.task].ran = time, ![c.task].runs = @ + 1]
    /\ UNCHANGED <<keyboard_client, input_action, editing_state, respCount>>

i32_min(a, b) == IF a <= b THEN a ELSE b

\* i32::max
i32_max(a, b) == IF a >= b THEN a ELSE b

\* the FlutterWindowMetricsEvent the closure of metrics_changed builds from
\* the values it captured
WindowMetricsEvent(c) ==
    [width |-> c.width, height |-> c.height, pixel_ratio |-> c.pixel_ratio,
     left |-> i32_max(c.x, 0), top |-> i32_max(c.y, 0),
     physical_view_inset_top |-> 0, physical_view_inset_right |-> 0,
     physical_view_inset_bottom |-> 0, physical_view_inset_left |-> 0]

SendWindowMetricsEvent(metrics) ==
    [call |-> "FlutterEngineSendWindowMetricsEvent", arg |-> metrics]

\* The deferred closure of metrics_changed; the engine accepts the event
RunMetrics(c) ==
    /\ engineCalls' = <<SendWindowMetricsEvent(WindowMetricsEvent(c))>>
    /\ UNCHANGED <<keyboard_client, input_action, editing_state, respCount, tasks>>

SendPointerEvent(event) == [call |-> "FlutterEngineSendPointerEvent", arg |-> event]

\* What the engine knows of the pointer devices after an event: an Add makes
\* the device of the event known as added, a Remove as removed.  The mouse
\* the event was made for is kept with it.
EnginePointerEvent(pointers, event) ==
    IF event.phase \in {"kAdd", "kRemove"}
    THEN [v \in DOMAIN pointers \cup {event.device} |->
             IF v = event.device
             THEN [mouse |-> event.mouse, added |-> event.phase = "kAdd"]
             ELSE pointers[v]]
    ELSE pointers

\* The deferred closure of send_pointer_event; the engine accepts the event
RunPointer(c) ==
    /\ engineCalls' = <<SendPointerEvent(c.event)>>
    /\ engine_pointers' = EnginePointerEvent(engine_pointers, c.event)
    /\ UNCHANGED <<keyboard_client, input_action, editing_state, respCount, tasks>>

\* Running one closure c taken from the queue, rest being what stays queued
RunClosure(c, rest) ==
    /\ \/ c.kind = "platform_message" /\ RunPlatformMessage(c)
                                       /\ UNCHANGED engine_pointers
       \/ c.kind = "vsync" /\ RunVsync(c) /\ UNCHANGED engine_pointers
       \/ c.kind = "run_task" /\ RunTask(c) /\ UNCHANGED engine_pointers
       \/ c.kind = "metrics" /\ RunMetrics(c) /\ UNCHANGED engine_pointers
       \/ c.kind = "pointer" /\ RunPointer(c)
    /\ lastRun' = c
    /\ queue' = rest
    /\ lastThread' = "ui"
    /\ UNCHANGED <<keyVars, compVars, codecVars, viewVars>>
    /\ UNCHANGED <<mice, current_mouse_id>>
    /\ UNCHANGED <<nextSeq, nextHandle, time, timers, channel_rx, local_timers,
                   runner_engine, nextBaton>>

UserEvent_newest ==
    /\ queue # <<>>
    /\ RunClosure(queue[Len(queue)], SubSeq(queue, 1, Len(queue) - 1))

\* UI thread: main's Event::UserEvent(handler) arm.  winit delivers user
\* events in the order they were sent, so the oldest closure runs.
UserEvent ==
    /\ queue # <<>>
    /\ RunClosure(Head(queue), Tail(queue))

NewTask(runner, target, checked, path, queued) ==
    [runner |-> runner, target |-> target, checked |-> checked, path |-> path,
     queued |-> queued, ran |-> -1, runs |-> 0]

\* Engine thread: FlutterApplication::post_task_callback
post_task_callback(target_time_nanos) ==
    /\ Len(tasks) < MaxTasks
    /\ LET task == Len(tasks) + 1
       IN  IF time >= target_time_nanos
           THEN /\ nextSeq' = nextSeq + 1
                /\ queue' = send_event(queue, [kind |-> "run_task",
                                               seq |-> nextSeq + 1, task |-> task])
                /\ tasks' = Append(tasks, NewTask("event_loop", target_time_nanos,
                                                  time, "direct", time))
                /\ UNCHANGED timers
           ELSE /\ timers' = timers \cup {[task |-> task, st |-> "spawned",
                                            target |-> target_time_nanos,
                                            wake |-> 0, wrapped |-> FALSE]}
                /\ tasks' = Append(tasks, NewTask("event_loop", target_time_nanos,
                                                  time, "timer", -1))
                /\ UNCHANGED <<queue, nextSeq>>
    /\ engineCalls' = <<GetCurrentTime>>
    /\ lastThread' = "engine"
    /\ UNCHANGED <<keyVars, compVars, codecVars, viewVars, pointerVars>>
    /\ UNCHANGED <<lastRun, nextHandle, respCount, keyboard_client, input_action,
                   editing_state, time, channel_rx, local_timers, runner_engine,
                   nextBaton>>

\* tokio worker: first poll of the async block spawned by post_task_callback.
\* It reads the clock a second time; target - now is a u64 subtraction, which
\* panics on underflow in a build with overflow checks (the spawned task is
\* dropped) and wraps to about 2^64 ns otherwise (the sleep does not end
\* within any run of the program).
TimerStart(tm) ==
    /\ tm \in timers /\ tm.st = "spawned"
    /\ IF time <= tm.target
       THEN timers' = (timers \ {tm}) \cup
                {[tm EXCEPT !.st = "sleeping", !.wake = time + (tm.target - time)]}
       ELSE \/ timers' = (timers \ {tm}) \cup {[tm EXCEPT !.st = "panicked"]}
            \/ timers' = (timers \ {tm}) \cup
                {[tm EXCEPT !.st = "sleeping", !.wrapped = TRUE]}
    /\ engineCalls' = <<GetCurrentTime>>
    /\ lastThread' = "timer"
    /\ UNCHANGED <<keyVars, compVars, codecVars, viewVars, pointerVars>>
    /\ UNCHANGED <<queue, nextSeq, lastRun, nextHandle, respCount, keyboard_client,
                   input_action, editing_state, time, tasks, channel_rx,
                   local_timers, runner_engine, nextBaton>>

TimerFire_early(tm) ==
    /\ tm \in timers /\ tm.st = "sleeping" /\ ~tm.wrapped
    /\ timers' = timers \ {tm}
    /\ nextSeq' = nextSeq + 1
    /\ queue' = send_event(queue, [kind |-> "run_task", seq |-> nextSeq + 1,
                                   task |-> tm.task])
    /\ tasks' = [tasks EXCEPT ![tm.task].queued = time]
    /\ engineCalls' = <<>>
    /\ lastThread' = "timer"
    /\ UNCHANGED <<keyVars, compVars, codecVars, viewVars, pointerVars>>
    /\ UNCHANGED <<lastRun, nextHandle, respCount, keyboard_client, input_action,
                   editing_state, time, channel_rx, local_timers, runner_engine,
                   nextBaton>>

\* tokio worker: the sleep has elapsed, the closure is sent to the event loop
TimerFire(tm) ==
    /\ tm \in timers /\ tm.st = "sleeping" /\ ~tm.wrapped
    /\ time >= tm.wake
    /\ timers' = timers \ {tm}
    /\ nextSeq' = nextSeq + 1
    /\ queue' = send_event(queue, [kind |-> "run_task", seq |-> nextSeq + 1,
                                   task |-> tm.task])
    /\ tasks' = [tasks EXCEPT ![tm.task].queued = time]
    /\ engineCalls' = <<>>
    /\ lastThread' = "timer"
    /\ UNCHANGED <<keyVars, compVars, codecVars, viewVars, pointerVars>>
    /\ UNCHANGED <<lastRun, nextHandle, respCount, keyboard_client, input_action,
                   editing_state, time, channel_rx, local_timers, runner_engine,
                   nextBaton>>

\* The engine clock advances
Tick ==
    /\ time < MaxTime
    /\ time' = time + 1
    /\ engineCalls' = <<>>
    /\ lastThread' = "clock"
    /\ UNCHANGED <<keyVars, compVars, codecVars, viewVars, pointerVars>>
    /\ UNCHANGED <<queue, nextSeq, lastRun, nextHandle, respCount, keyboard_client,
                   input_action, editing_state, timers, tasks, channel_rx,
                   local_timers, runner_engine, nextBaton>>

---------------------------------------------------------------------------
\* TaskRunner (flutter_application/task_runner.rs)

\* TaskRunner::run: hands the engine to the runner thread, once
TaskRunner_run ==
    /\ runner_engine = None
    /\ runner_engine' = Some("engine")
    /\ engineCalls' = <<>>
    /\ lastThread' = "ui"
    /\ UNCHANGED <<keyVars, compVars, codecVars, viewVars, pointerVars>>
    /\ UNCHANGED <<queue, nextSeq, lastRun, nextHandle, respCount, keyboard_client,
                   input_action, editing_state, time, timers, tasks, channel_rx,
                   local_timers, nextBaton>>

\* Engine thread: TaskRunner::post_task_callback sends the task on the channel
TaskRunner_post_task_callback(target_time_nanos) ==
    /\ Len(tasks) < MaxTasks
    /\ channel_rx' = Append(channel_rx, [task |-> Len(tasks) + 1,
                                         target_time_nanos |-> target_time_nanos])
    /\ tasks' = Append(tasks, NewTask("task_runner", target_time_nanos, -1,
                                      "channel", -1))
    /\ engineCalls' = <<>>
    /\ lastThread' = "engine"
    /\ UNCHANGED <<keyVars, compVars, codecVars, viewVars, pointerVars>>
    /\ UNCHANGED <<queue, nextSeq, lastRun, nextHandle, respCount, keyboard_client,
                   input_action, editing_state, time, timers, local_timers,
                   runner_engine, nextBaton>>

\* a receive loop that takes the task posted last
TaskRunner_recv_newest ==
    /\ IsSome(runner_engine)
    /\ channel_rx # <<>>
    /\ LET m == channel_rx[Len(channel_rx)]
           now == time
       IN  IF now >= m.target_time_nanos
           THEN /\ tasks' = [tasks EXCEPT ![m.task].checked = now,
                                          ![m.task].path = "direct",
                                          ![m.task].queued = now,
                                          ![m.task].ran = time,
                                          ![m.task].runs = @ + 1]
                /\ engineCalls' = <<GetCurrentTime, RunTaskCall(m.task)>>
                /\ UNCHANGED local_timers
           ELSE /\ tasks' = [tasks EXCEPT ![m.task].checked = now,
                                          ![m.task].path = "timer"]
                /\ local_timers' = local_timers \cup
                       {[task |-> m.task,
                         wake |-> now + (m.target_time_nanos - now)]}
                /\ engineCalls' = <<GetCurrentTime>>
    /\ channel_rx' = SubSeq(channel_rx, 1, Len(channel_rx) - 1)
    /\ lastThread' = "runner"
    /\ UNCHANGED <<keyVars, compVars, codecVars, viewVars, pointerVars>>
    /\ UNCHANGED <<queue, nextSeq, lastRun, nextHandle, respCount, keyboard_client,
                   input_action, editing_state, time, timers, runner_engine,
                   nextBaton>>

\* Runner thread: one iteration of the receive loop of TaskRunner::new
TaskRunner_recv ==
    /\ IsSome(runner_engine)
    /\ channel_rx # <<>>
    /\ LET m == Head(channel_rx)
           now == time
       IN  IF now >= m.target_time_nanos
           THEN /\ tasks' = [tasks EXCEPT ![m.task].checked = now,
                                          ![m.task].path = "direct",
                                          ![m.task].queued = now,
                                          ![m.task].ran = time,
                                          ![m.task].runs = @ + 1]
                /\ engineCalls' = <<GetCurrentTime, RunTaskCall(m.task)>>
                /\ UNCHANGED local_timers
           ELSE /\ tasks' = [tasks EXCEPT ![m.task].checked = now,
                                          ![m.task].path = "timer"]
                /\ local_timers' = local_timers \cup
                       {[task |-> m.task,
                         wake |-> now + (m.target_time_nanos - now)]}
                /\ engineCalls' = <<GetCurrentTime>>
    /\ channel_rx' = Tail(channel_rx)
    /\ lastThread' = "runner"
    /\ UNCHANGED <<keyVars, compVars, codecVars, viewVars, pointerVars>>
    /\ UNCHANGED <<queue, nextSeq, lastRun, nextHandle, respCount, keyboard_client,
                   input_action, editing_state, time, timers, runner_engine,
                   nextBaton>>

\* Runner thread: a spawn_local sleeper wakes up and runs its task
TaskRunner_timer(lt) ==
    /\ lt \in local_timers
    /\ time >= lt.wake
    /\ local_timers' = local_timers \ {lt}
    /\ tasks' = [tasks EXCEPT ![lt.task].queued = time, ![lt.task].ran = time,
                              ![lt.task].runs = @ + 1]
    /\ engineCalls' = <<RunTaskCall(lt.task)>>
    /\ lastThread' = "runner"
    /\ UNCHANGED <<keyVars, compVars, codecVars, viewVars, pointerVars>>
    /\ UNCHANGED <<queue, nextSeq, lastRun, nextHandle, respCount, keyboard_client,
                   input_action, editing_state, time, timers, channel_rx,
                   runner_engine, nextBaton>>

---------------------------------------------------------------------------
\* Payloads the engine sends in the bridge specification
SampleState == [text |-> <<"a", "b">>, selection_base |-> Some(1),
                selection_extent |-> Some(2)]

BridgePayloads ==
    { [method |-> "TextInput.setClient", client |-> 1, input_action |-> "done"],
      [method |-> "TextInput.clearClient"],
      [method |-> "TextInput.setEditingState", state |-> SampleState],
      [method |-> "TextInput.show"],
      [method |-> "{not json"] }

\* Target times the engine posts tasks with: already due, due after one
\* tick (the clock can pass it before the timer's first poll), and far away
TargetTimes == {0, 1, MaxTime}

BridgeInit ==
    /\ queue = <<>>
    /\ nextSeq = 0
    /\ lastRun = [kind |-> "none", seq |-> 0]
    /\ nextHandle = 0
    /\ respCount = [h \in 1 .. MaxMsgs |-> 0]
    /\ keyboard_client = None
    /\ input_action = "unspecified"
    /\ editing_state = TextEditingValue_default
    /\ engineCalls = <<>>
    /\ lastThread = "ui"
    /\ time = 0
    /\ timers = {}
    /\ tasks = <<>>
    /\ channel_rx = <<>>
    /\ local_timers = {}
    /\ runner_engine = None
    /\ nextBaton = 0
    /\ keyboard_modifiers = [shift |-> FALSE, control |-> FALSE, super |-> FALSE]
    /\ clipboard = None
    /\ outbox = <<>>
    /\ panicked = FALSE

\* nothing has been presented
NoFrame ==
    [passes |-> 0, commands |-> <<>>, layers |-> <<>>, submitted |-> FALSE,
     presented |-> FALSE]

\* no present_layers_callback is running
NoPresent ==
    [pc |-> "idle", layers |-> <<>>, idx |-> 0, viewport_size |-> <<0, 0>>,
     uniforms |-> <<>>, ops |-> <<>>, commands |-> <<>>]

\* Compositor::new(viewport_size) and a surface configured with the window
\* size; no backing store exists yet.
CompositorInit ==
    /\ records = [h \in 1 .. MaxHandles |-> [allocs |-> 0, frees |-> 0]]
    /\ held = {}
    /\ frame = NoFrame
    /\ lastCallback = [name |-> "none", handle |-> 0]
    /\ viewport_size = <<800, 600>>
    /\ previous_viewport_size = <<800, 600>>
    /\ surface_size = <<800, 600>>
    /\ present = NoPresent
    /\ handler_lock = "none"
    /\ resizing = None

\* from_slice has not been called
Pending == [status |-> "pending", pos |-> 0, value |-> <<>>]

CodecIdle ==
    /\ message = None
    /\ input = <<>>
    /\ result = Pending

\* PlatformViewsHandler::default(): both maps are empty
PlatformViewsInit ==
    /\ registered_view_types = <<>>
    /\ views = <<>>
    /\ nextView = 0
    /\ viewCall = [name |-> "none"]
    /\ response = None
    /\ rendered = <<>>
    /\ logged = <<>>

\* FlutterApplication::new: no mouse is known and the first virtual id is 0
PointerInit ==
    /\ mice = <<>>
    /\ current_mouse_id = 0
    /\ engine_pointers = <<>>

Init ==
    BridgeInit /\ CompositorInit /\ PlatformViewsInit /\ PointerInit /\ CodecIdle

\* Posted tasks only: both task paths, the clock and the event loop
TaskNext ==
    \/ \E t \in TargetTimes : post_task_callback(t)
    \/ \E tm \in timers : TimerStart(tm)
    \/ \E tm \in timers : TimerFire(tm)
    \/ Tick
    \/ UserEvent
    \/ TaskRunner_run
    \/ \E t \in TargetTimes : TaskRunner_post_task_callback(t)
    \/ TaskRunner_recv
    \/ \E lt \in local_timers : TaskRunner_timer(lt)

TaskSpec == Init /\ [][TaskNext]_vars

MsgNext ==
    \/ \E ch \in Channels, d \in BridgePayloads : platform_message_callback(ch, d)
    \/ vsync_callback
    \/ UserEvent

MsgSpec == Init /\ [][MsgNext]_vars

\* The three engine-thread callbacks, the first poll of a spawned timer and
\* the event loop, with the clock held still: a far target stays in the
\* future.  The passage of time and the firing of timers are in TaskNext.
BridgeNext ==
    \/ \E d \in {p \in BridgePayloads : p.method \in {"TextInput.setClient", "TextInput.setEditingState"}} :
           platform_message_callback([utf8 |-> TRUE, name |-> FLUTTER_TEXTINPUT_CHANNEL], d)
    \/ vsync_callback
    \/ \E t \in {0, MaxTime} : post_task_callback(t)
    \/ \E tm \in timers : TimerStart(tm)
    \/ UserEvent

BridgeSpec == Init /\ [][BridgeNext]_vars

---------------------------------------------------------------------------
\* Claims about the engine bridge

InQueue(h) == \E i \in 1 .. Len(queue) :
                 queue[i].kind = "platform_message" /\ queue[i].response_handle = h

\* C1: every platform message the engine delivered gets exactly one call of
\* FlutterEngineSendPlatformMessageResponse on its handle: none while its
\* closure is still queued, one as soon as the closure has run, never two;
\* this for every channel (not UTF-8 included) and payload (undecodable
\* text-input payloads included).
C1_ResponseExactlyOnce ==
    \A h \in 1 .. MaxMsgs :
        /\ respCount[h] <= 1
        /\ (h <= nextHandle /\ ~InQueue(h)) => respCount[h] = 1
        /\ (h > nextHandle \/ InQueue(h)) => respCount[h] = 0

\* C1 witness: a message on a channel that is not UTF-8 was answered, and
\* then a text-input message with an undecodable payload was answered too.
C1_Witness ==
    /\ lastRun.kind = "platform_message"
    /\ lastRun.response_handle = 2
    /\ lastRun.channel = Some(FLUTTER_TEXTINPUT_CHANNEL)
    /\ from_slice_TextInput(lastRun.data) = None
    /\ respCount[1] = 1 /\ respCount[2] = 1
    /\ engineCalls = <<Response(2)>>

IsClockRead(call) == call.call = GetCurrentTime.call

C4_FifoOrder ==
    /\ \A i \in 1 .. Len(queue) : queue[i].seq = lastRun.seq + i
    /\ \A h1, h2 \in 1 .. MaxMsgs :
          (h1 < h2 /\ respCount[h2] >= 1) => respCount[h1] >= 1

\* C4 witness: set client then clear client were sent in that order; the
\* first has run (client set, answered) while the second is still queued.
C4_Witness ==
    /\ lastRun.kind = "platform_message"
    /\ lastRun.data.method = "TextInput.setClient"
    /\ lastRun.channel = Some(FLUTTER_TEXTINPUT_CHANNEL)
    /\ keyboard_client = Some(1)
    /\ respCount[1] = 1 /\ respCount[2] = 0
    /\ Len(queue) >= 1
    /\ queue[1].kind = "platform_message"
    /\ queue[1].data.method = "TextInput.clearClient"

\* C5: a task takes the direct path exactly when the clock read at the
\* decision had reached its target, the timer path otherwise; on the timer
\* path it is queued or run only once the clock has reached the target; no
\* task is run at a time before its target.
C5_NotBeforeTarget ==
    \A i \in 1 .. Len(tasks) :
        LET t == tasks[i]
        IN  /\ t.ran # -1 => t.ran >= t.target
            /\ t.path = "direct" => (t.checked >= t.target /\ t.queued = t.checked)
            /\ t.path = "timer" =>
                  /\ t.checked < t.target
                  /\ t.queued # -1 => t.queued >= t.target
            /\ t.ran # -1 => (t.queued # -1 /\ t.ran >= t.queued)

\* C5 witness: one task went through the event loop after its timer fired,
\* another was run directly; both have run.
C5_Witness ==
    /\ Len(tasks) = 2
    /\ tasks[1].runner = "event_loop" /\ tasks[1].path = "timer"
    /\ tasks[1].target > tasks[1].checked /\ tasks[1].ran # -1
    /\ tasks[2].path = "direct" /\ tasks[2].ran # -1

---------------------------------------------------------------------------
\* Keyboard and text editing (flutter_application.rs key_event, keyboard.rs)

\* longest text the model lets an edit produce
MaxLen == 2

\* stand-in for usize::MAX (the result of 0usize - 1 when it wraps): larger
\* than every offset of the model
UsizeMax == (2 ^ 30 - 1) * 2 + 1

\* The scalars of the model's texts and their UTF-8 widths: "a" takes one
\* byte, "é" two.
Chars == {"a", "é"}
len_utf8(c) == IF c = "é" THEN 2 ELSE 1

Min(a, b) == IF a <= b THEN a ELSE b
Max(a, b) == IF a >= b THEN a ELSE b
unwrap_or(o, d) == IF IsSome(o) THEN Unwrap(o) ELSE d

\* String::len: the length of a text in bytes
RECURSIVE str_len(_)
str_len(t) == IF t = <<>> THEN 0 ELSE len_utf8(Head(t)) + str_len(Tail(t))

\* byte offset at which the scalar after the first i scalars starts
byte_offset(t, i) == str_len(SubSeq(t, 1, i))

\* str::is_char_boundary
is_char_boundary(t, b) == \E i \in 0 .. Len(t) : byte_offset(t, i) = b

scalars_before(t, b) == CHOOSE i \in 0 .. Len(t) : byte_offset(t, i) = b

\* String::remove(idx): idx is a BYTE index; panics (None) when idx is not
\* the first byte of a scalar of the text
String_remove(t, idx) ==
    IF idx < str_len(t) /\ is_char_boundary(t, idx)
    THEN LET i == scalars_before(t, idx)
         IN  Some(SubSeq(t, 1, i) \o SubSeq(t, i + 2, Len(t)))
    ELSE None

\* String::replace_range(start..end, with): a BYTE range; panics (None) when
\* an end of the range is out of bounds or not on a scalar boundary
String_replace_range(t, start, end, with) ==
    IF start <= end /\ end <= str_len(t)
       /\ is_char_boundary(t, start) /\ is_char_boundary(t, end)
    THEN Some(SubSeq(t, 1, scalars_before(t, start)) \o with
              \o SubSeq(t, scalars_before(t, end) + 1, Len(t)))
    ELSE None

\* text.chars().skip(start).take(end - start).collect()
chars_skip_take(t, start, end) == SubSeq(t, Min(start, Len(t)) + 1, Min(end, Len(t)))

\* the selection range computed at the top of key_event and insert_text
Selection(es) ==
    LET selection_base == unwrap_or(es.selection_base, 0)
        selection_extent == unwrap_or(es.selection_extent, 0)
    IN  [start |-> Min(selection_base, selection_extent),
         end |-> Max(selection_base, selection_extent)]

\* Outcome of the editing part of one key event
Done(es, clip) == [es |-> es, actions |-> <<>>, clip |-> clip, panic |-> FALSE]
Act(es, clip, action) ==
    [es |-> es, actions |-> <<action>>, clip |-> clip, panic |-> FALSE]
Panic(es, clip) == [es |-> es, actions |-> <<>>, clip |-> clip, panic |-> TRUE]

move_home_extent(es, shift) ==
    [es EXCEPT !.selection_extent = Some(0),
               !.selection_base = IF shift THEN @ ELSE Some(0)]

move_home(es, shift) ==
    [es EXCEPT !.selection_base = Some(0),
               !.selection_extent = IF shift THEN @ ELSE Some(0)]

move_end(es, shift) ==
    LET len == Len(es.text)
    IN  [es EXCEPT !.selection_extent = Some(len),
                   !.selection_base = IF shift THEN @ ELSE Some(len)]

\* insert_text: None when replace_range panics
insert_text(es, text) ==
    LET len == Len(es.text)
        selection == Selection(es)
    IN  IF len > 0 /\ selection.start < len
        THEN LET r == String_replace_range(es.text, selection.start,
                                           selection.end, text)
                 b == Some(selection.start + Len(text))
             IN  IF r = None THEN None
                 ELSE Some([text |-> Unwrap(r), selection_base |-> b,
                            selection_extent |-> b])
        ELSE LET t == es.text \o text
             IN  Some([text |-> t, selection_base |-> Some(Len(t)),
                       selection_extent |-> Some(Len(t))])

\* Key::ArrowLeft arm
arrow_left(es, shift) ==
    LET selection == Selection(es)
    IN  IF selection.start > 0
        THEN IF ~shift /\ selection.start # selection.end
             THEN [es EXCEPT !.selection_extent = es.selection_base]
             ELSE [es EXCEPT !.selection_base = Some(selection.start - 1),
                             !.selection_extent =
                                 IF shift THEN @ ELSE Some(selection.start - 1)]
        ELSE IF ~shift /\ selection.start # selection.end
             THEN [es EXCEPT !.selection_extent = es.selection_base]
             ELSE es

\* Key::ArrowRight arm
arrow_right(es, shift) ==
    LET selection == Selection(es)
        len == Len(es.text)
    IN  IF selection.end < len
        THEN IF ~shift /\ selection.start # selection.end
             THEN [es EXCEPT !.selection_base = es.selection_extent]
             ELSE [es EXCEPT !.selection_extent = Some(selection.end + 1),
                             !.selection_base =
                                 IF shift THEN @ ELSE Some(selection.end + 1)]
        ELSE IF ~shift /\ selection.start # selection.end
             THEN [es EXCEPT !.selection_base = es.selection_extent]
             ELSE es

\* the deletion of a non-empty selection shared by Backspace, Delete and cut:
\* replace_range(selection, "") then selection_extent = selection_base
delete_selection(es, clip) ==
    LET selection == Selection(es)
        r == String_replace_range(es.text, selection.start, selection.end, <<>>)
    IN  IF r = None THEN Panic(es, clip)
        ELSE Done([es EXCEPT !.text = Unwrap(r),
                             !.selection_extent = es.selection_base], clip)

\* Key::Backspace arm of Keyboard::key_event (keyboard.rs)
Keyboard_backspace(es, clip) ==
    LET selection == Selection(es)
    IN  IF selection.start = selection.end
        THEN IF selection.start > 0
             THEN LET r == String_remove(es.text, selection.start - 1)
                  IN  IF r = None THEN {Panic(es, clip)}
                      ELSE {Done([es EXCEPT
                                    !.text = Unwrap(r),
                                    !.selection_base = Some(selection.start - 1),
                                    !.selection_extent = Some(selection.start - 1)],
                                 clip)}
             ELSE {Done([es EXCEPT !.selection_extent = es.selection_base], clip)}
        ELSE {delete_selection(es, clip)}

\* Key::Backspace arm of FlutterApplication::key_event: selection_base is set
\* to start - 1 also when start is 0, where the usize subtraction panics with
\* overflow checks and wraps to usize::MAX without; the extent is not moved.
App_backspace(es, clip) ==
    LET selection == Selection(es)
    IN  IF selection.start = selection.end
        THEN IF selection.start > 0
             THEN LET r == String_remove(es.text, selection.start - 1)
                  IN  IF r = None THEN {Panic(es, clip)}
                      ELSE {Done([es EXCEPT
                                    !.text = Unwrap(r),
                                    !.selection_base = Some(selection.start - 1)],
                                 clip)}
             ELSE {Panic(es, clip),
                   Done([es EXCEPT !.selection_base = Some(UsizeMax)], clip)}
        ELSE {delete_selection(es, clip)}

\* Key::Delete arm
delete_key(es, clip) ==
    LET selection == Selection(es)
        len == Len(es.text)
    IN  IF selection.start = selection.end
        THEN IF selection.start < len
             THEN LET r == String_remove(es.text, selection.start)
                  IN  IF r = None THEN Panic(es, clip)
                      ELSE Done([es EXCEPT !.text = Unwrap(r)], clip)
             ELSE Done(es, clip)
        ELSE delete_selection(es, clip)

\* "a" with the action key: select all
select_all(es) ==
    [es EXCEPT !.selection_base = Some(0), !.selection_extent = Some(Len(es.text))]

\* "x" with the action key: cut
cut(es, clip) ==
    LET selection == Selection(es)
        text == chars_skip_take(es.text, selection.start, selection.end)
    IN  IF selection.start # selection.end
        THEN LET d == delete_selection(es, clip)
             IN  IF d.panic THEN d ELSE Done(d.es, Some(text))
        ELSE Done(es, clip)

\* "c" with the action key: copy
copy(es, clip) ==
    LET selection == Selection(es)
        text == chars_skip_take(es.text, selection.start, selection.end)
    IN  IF selection.start # selection.end THEN Done(es, Some(text))
        ELSE Done(es, clip)

\* "v" with the action key: paste; a failing clipboard read is ignored
paste(es, clip) ==
    IF IsSome(clip)
    THEN LET r == insert_text(es, Unwrap(clip))
         IN  IF r = None THEN Panic(es, clip) ELSE Done(Unwrap(r), clip)
    ELSE Done(es, clip)

\* ActionKey::action_key on a build that is not macOS/iOS
action_key(modifiers) == modifiers.control

NamedKeys == {"ArrowLeft", "ArrowRight", "ArrowUp", "ArrowDown", "Home", "End",
              "Backspace", "Delete", "Enter", "Tab", "F25"}
CharacterKeys == {"a", "é", "x", "c", "v"}

\* translate_logical_key panics for a Key::Character whose string has fewer
\* scalars than bytes (up to 4 bytes): it calls iter.next().unwrap() once per
\* byte of the string
translate_logical_key_panics(key) == key \in CharacterKeys /\ len_utf8(key) > 1

\* translate_logical_key: None for a key outside the table
translate_logical_key(key) == IF key = "F25" THEN None ELSE Some(key)

\* translate_physical_key: None for a key code outside the table
translate_physical_key(code) == IF code = "Unidentified" THEN None ELSE Some(code)

\* The match on event.logical_key of Keyboard::key_event (keyboard.rs): the
\* set of possible outcomes
Keyboard_edit(event, es, modifiers, clip, action) ==
    LET key == event.logical_key
        shift == modifiers.shift
    IN  CASE key = "ArrowLeft" -> {Done(arrow_left(es, shift), clip)}
          [] key = "ArrowRight" -> {Done(arrow_right(es, shift), clip)}
          [] key \in {"ArrowUp", "Home"} -> {Done(move_home(es, shift), clip)}
          [] key \in {"ArrowDown", "End"} -> {Done(move_end(es, shift), clip)}
          [] key = "Backspace" -> Keyboard_backspace(es, clip)
          [] key = "Delete" -> {delete_key(es, clip)}
          [] key = "Enter" -> {Act(es, clip, action)}
          [] key = "Tab" -> {Act(es, clip, IF shift THEN "previous" ELSE "next")}
          [] key = "a" /\ action_key(modifiers) -> {Done(select_all(es), clip)}
          [] key = "x" /\ action_key(modifiers) -> {cut(es, clip)}
          [] key = "c" /\ action_key(modifiers) -> {copy(es, clip)}
          [] key = "v" /\ action_key(modifiers) -> {paste(es, clip)}
          [] OTHER -> {Done(es, clip)}

\* The match on event.logical_key of FlutterApplication::key_event
App_edit(event, es, modifiers, clip) ==
    LET key == event.logical_key
        shift == modifiers.shift
    IN  CASE key = "ArrowLeft" -> {Done(arrow_left(es, shift), clip)}
          [] key = "ArrowRight" -> {Done(arrow_right(es, shift), clip)}
          [] key \in {"ArrowUp", "Home"} -> {Done(move_home(es, shift), clip)}
          [] key \in {"ArrowDown", "End"} -> {Done(move_end(es, shift), clip)}
          [] key = "Backspace" -> App_backspace(es, clip)
          [] key = "Delete" -> {delete_key(es, clip)}
          [] key = "a" /\ action_key(modifiers) -> {Done(select_all(es), clip)}
          [] key = "x" /\ action_key(modifiers) -> {cut(es, clip)}
          [] key = "c" /\ action_key(modifiers) -> {copy(es, clip)}
          [] key = "v" /\ action_key(modifiers) -> {paste(es, clip)}
          [] OTHER ->
               IF modifiers.control \/ modifiers.super THEN {Done(es, clip)}
               ELSE IF IsSome(event.text)
                    THEN LET r == insert_text(es, Unwrap(event.text))
                         IN  IF r = None THEN {Panic(es, clip)}
                             ELSE {Done(Unwrap(r), clip)}
                    ELSE {Done(es, clip)}

\* update_editing_state without the test for a client
update_editing_state_unguarded(client, es) ==
    <<[method |-> "TextInputClient.updateEditingState",
       client |-> unwrap_or(client, 0), value |-> es]>>

\* update_editing_state with the message built from the value before the edit
update_editing_state_stale(client, es) ==
    IF IsSome(client)
    THEN <<[method |-> "TextInputClient.updateEditingState",
            client |-> Unwrap(client), value |-> editing_state]>>
    ELSE <<>>

\* Keyboard::update_editing_state / FlutterApplication::update_editing_state:
\* the messages it sends to the engine
update_editing_state(client, es) ==
    IF IsSome(client)
    THEN <<[method |-> "TextInputClient.updateEditingState",
            client |-> Unwrap(client), value |-> es]>>
    ELSE <<>>

\* send_action that ignores the action it is given
send_action_next(client, action) ==
    IF IsSome(client)
    THEN <<[method |-> "TextInputClient.performAction",
            client |-> Unwrap(client), action |-> "next"]>>
    ELSE <<>>

\* Keyboard::send_action: the messages it sends to the engine
send_action(client, action) ==
    IF IsSome(client)
    THEN <<[method |-> "TextInputClient.performAction",
            client |-> Unwrap(client), action |-> action]>>
    ELSE <<>>

RECURSIVE send_actions(_, _)
send_actions(client, actions) ==
    IF actions = <<>> THEN <<>>
    ELSE send_action(client, Head(actions)) \o send_actions(client, Tail(actions))

KeyEventType(event) ==
    IF event.state = "Pressed"
    THEN IF event.repeat THEN "kFlutterKeyEventTypeRepeat"
                         ELSE "kFlutterKeyEventTypeDown"
    ELSE "kFlutterKeyEventTypeUp"

SendKeyEvent(event) == [call |-> "FlutterEngineSendKeyEvent",
                        arg |-> KeyEventType(event)]

\* the edits the model follows: texts of at most MaxLen scalars, and offsets
\* that are in the text or the wrapped value
InBounds(es) ==
    /\ Len(es.text) <= MaxLen
    /\ \A o \in {es.selection_base, es.selection_extent} :
          IsSome(o) => (Unwrap(o) <= MaxLen \/ Unwrap(o) = UsizeMax)

selection_active(es) ==
    /\ IsSome(es.selection_base) /\ Unwrap(es.selection_base) >= 0
    /\ IsSome(es.selection_extent) /\ Unwrap(es.selection_extent) >= 0

\* Common shape of both key_event functions, outcomes being the set computed
\* by the match of the version at hand
KeyEventStep(event, outcomes) ==
    /\ ~panicked
    /\ lastThread' = "ui"
    /\ IF translate_logical_key_panics(event.logical_key)
       THEN /\ panicked' = TRUE
            /\ engineCalls' = <<>>
            /\ outbox' = <<>>
            /\ UNCHANGED <<editing_state, clipboard>>
       ELSE
       IF IsSome(translate_logical_key(event.logical_key))
          /\ IsSome(translate_physical_key(event.physical_key))
       THEN /\ engineCalls' = <<SendKeyEvent(event)>>
            /\ IF event.state = "Pressed" /\ selection_active(editing_state)
               THEN \E o \in outcomes :
                       /\ InBounds(o.es)
                       /\ panicked' = o.panic
                       /\ IF o.panic
                          THEN /\ outbox' = send_actions(keyboard_client, o.actions)
                               /\ UNCHANGED <<editing_state, clipboard>>
                          ELSE /\ editing_state' = o.es
                               /\ clipboard' = o.clip
                               /\ outbox' = send_actions(keyboard_client, o.actions)
                                       \o update_editing_state(keyboard_client, o.es)
               ELSE /\ outbox' = <<>>
                    /\ UNCHANGED <<editing_state, clipboard, panicked>>
       ELSE /\ engineCalls' = <<>>
            /\ outbox' = <<>>
            /\ UNCHANGED <<editing_state, clipboard, panicked>>
    /\ UNCHANGED <<queue, nextSeq, lastRun, nextHandle, respCount, keyboard_client,
                   input_action, time, timers, tasks, channel_rx, local_timers,
                   runner_engine, nextBaton, keyboard_modifiers>>
    /\ UNCHANGED <<compVars, codecVars, viewVars, pointerVars>>

\* UI thread: Keyboard::key_event (keyboard.rs)
Keyboard_key_event(event) ==
    KeyEventStep(event, Keyboard_edit(event, editing_state, keyboard_modifiers,
                                      clipboard, input_action))

\* UI thread: FlutterApplication::key_event (flutter_application.rs)
key_event(event) ==
    KeyEventStep(event, App_edit(event, editing_state, keyboard_modifiers,
                                 clipboard))

\* UI thread: modifiers_changed
modifiers_changed(state) ==
    /\ ~panicked
    /\ keyboard_modifiers' = state
    /\ outbox' = <<>>
    /\ engineCalls' = <<>>
    /\ lastThread' = "ui"
    /\ UNCHANGED <<queue, nextSeq, lastRun, nextHandle, respCount, keyboard_client,
                   input_action, editing_state, time, timers, tasks, channel_rx,
                   local_timers, runner_engine, nextBaton, clipboard, panicked>>
    /\ UNCHANGED <<compVars, codecVars, viewVars, pointerVars>>

\* UI thread: Keyboard::handle_textinput_message applied to a decoded message
Keyboard_handle_textinput_message(textinput) ==
    /\ ~panicked
    /\ LET new == handle_textinput_message(textinput, keyboard_client,
                                           input_action, editing_state)
       IN  /\ keyboard_client' = new[1]
           /\ input_action' = new[2]
           /\ editing_state' = new[3]
    /\ outbox' = <<>>
    /\ engineCalls' = <<>>
    /\ lastThread' = "ui"
    /\ UNCHANGED <<queue, nextSeq, lastRun, nextHandle, respCount, time, timers,
                   tasks, channel_rx, local_timers, runner_engine, nextBaton,
                   keyboard_modifiers, clipboard, panicked>>
    /\ UNCHANGED <<compVars, codecVars, viewVars, pointerVars>>

\* Inputs of the keyboard specification

\* editing values the framework sets: empty, caret at the end, a selection
\* over a two-byte scalar, a reversed selection that ends at one, no
\* selection at all, and a reversed selection in a text of one-byte scalars
FrameworkStates ==
    { [text |-> <<>>, selection_base |-> Some(0), selection_extent |-> Some(0)],
      [text |-> <<"a">>, selection_base |-> Some(1), selection_extent |-> Some(1)],
      [text |-> <<"é", "a">>, selection_base |-> Some(0), selection_extent |-> Some(1)],
      [text |-> <<"a", "é">>, selection_base |-> Some(2), selection_extent |-> Some(1)],
      [text |-> <<"a">>, selection_base |-> None, selection_extent |-> None],
      [text |-> <<"a", "a">>, selection_base |-> Some(2), selection_extent |-> Some(1)] }

KeyPayloads ==
    { [method |-> "TextInput.setClient", client |-> 1, input_action |-> "done"],
      [method |-> "TextInput.clearClient"],
      [method |-> "TextInput.show"] }
    \cup [method : {"TextInput.setEditingState"}, state : FrameworkStates]

KeyText(key) == IF key \in Chars THEN Some(<<key>>) ELSE None

\* a press of every key, and for some keys also a repeat, a release and an
\* event whose physical key is not in the table
KeyEvents ==
    { [logical_key |-> k, physical_key |-> "KeyCode", state |-> "Pressed",
       repeat |-> FALSE, text |-> KeyText(k)] : k \in NamedKeys \cup CharacterKeys }
    \cup
    { [logical_key |-> k, physical_key |-> "KeyCode", state |-> "Pressed",
       repeat |-> TRUE, text |-> KeyText(k)] : k \in {"a", "Backspace"} }
    \cup
    { [logical_key |-> k, physical_key |-> "KeyCode", state |-> "Released",
       repeat |-> FALSE, text |-> None] : k \in {"a", "Enter", "F25"} }
    \cup
    { [logical_key |-> k, physical_key |-> "Unidentified", state |-> "Pressed",
       repeat |-> FALSE, text |-> KeyText(k)] : k \in {"a", "Delete"} }

ModifierStates ==
    { [shift |-> s, control |-> c, super |-> FALSE] : s, c \in BOOLEAN }
    \cup { [shift |-> FALSE, control |-> FALSE, super |-> TRUE] }

KeyNext ==
    \/ \E ti \in KeyPayloads : Keyboard_handle_textinput_message(ti)
    \/ \E m \in ModifierStates : modifiers_changed(m)
    \/ \E ev \in KeyEvents : Keyboard_key_event(ev)
    \/ \E ev \in KeyEvents : key_event(ev)

KeySpec == Init /\ [][KeyNext]_vars

---------------------------------------------------------------------------
\* Claims about the keyboard

\* C2: a step taken while no keyboard client is set sends no
\* TextInputClient.updateEditingState and no TextInputClient.performAction
\* message, whatever the key event and whichever key_event handles it.
C2_NoClientNoMessages ==
    [][keyboard_client = None => outbox' = <<>>]_vars

\* C2 witness: with no client set, a press of Home has been forwarded to the
\* engine and has moved the caret of the text the framework had set, and no
\* text-input message was sent.
C2_Witness ==
    /\ keyboard_client = None
    /\ engineCalls = <<[call |-> "FlutterEngineSendKeyEvent",
                        arg |-> "kFlutterKeyEventTypeDown"]>>
    /\ editing_state = [text |-> <<"a">>, selection_base |-> Some(0),
                        selection_extent |-> Some(0)]
    /\ outbox = <<>>

---------------------------------------------------------------------------
\* Compositor (compositor.rs, flutter_application/compositor.rs)

\* the record at address h is allocated and not freed
Live(h) == records[h].allocs > records[h].frees

RECURSIVE SumAllocs(_)
SumAllocs(n) == IF n = 0 THEN 0 ELSE records[n].allocs + SumAllocs(n - 1)

\* the variables of the other components a compositor callback leaves alone;
\* it calls no engine entry point and sends no text-input message
CompositorFrame ==
    /\ engineCalls' = <<>>
    /\ outbox' = <<>>
    /\ lastThread' = "raster"
    /\ UNCHANGED <<queue, nextSeq, lastRun, nextHandle, respCount, keyboard_client,
                   input_action, editing_state, time, timers, tasks, channel_rx,
                   local_timers, runner_engine, nextBaton, keyboard_modifiers,
                   clipboard, panicked>>
    /\ UNCHANGED <<present, handler_lock, resizing>>
    /\ UNCHANGED <<codecVars, viewVars, pointerVars>>

\* create_backing_store_callback: Box::new puts the record at an address h
\* that holds no live record, Box::into_raw hands h to the engine as the
\* store's user_data together with destroy_texture.
create_backing_store_callback(h) ==
    /\ ~panicked
    /\ SumAllocs(MaxHandles) < MaxCreates
    /\ ~Live(h)
    /\ records' = [records EXCEPT ![h].allocs = @ + 1]
    /\ held' = held \cup {h}
    /\ lastCallback' = [name |-> "create_backing_store_callback", handle |-> h]
    /\ UNCHANGED <<frame, viewport_size, previous_viewport_size, surface_size>>
    /\ CompositorFrame

\* destroy_texture: Box::from_raw(user_data) is dropped.  The engine invokes
\* it once for a store it holds.
destroy_texture(h) ==
    /\ ~panicked
    /\ h \in held
    /\ records' = [records EXCEPT ![h].frees = @ + 1]
    /\ held' = held \ {h}
    /\ lastCallback' = [name |-> "destroy_texture", handle |-> h]
    /\ UNCHANGED <<frame, viewport_size, previous_viewport_size, surface_size>>
    /\ CompositorFrame

\* a collect callback that drops the record
backing_store_collect_callback_freeing(h) ==
    /\ ~panicked
    /\ h \in held
    /\ records' = [records EXCEPT ![h].frees = @ + 1]
    /\ lastCallback' = [name |-> "backing_store_collect_callback", handle |-> h]
    /\ UNCHANGED <<held, frame, viewport_size, previous_viewport_size, surface_size>>
    /\ CompositorFrame

\* backing_store_collect_callback: returns true and touches nothing
backing_store_collect_callback(h) ==
    /\ ~panicked
    /\ h \in held
    /\ lastCallback' = [name |-> "backing_store_collect_callback", handle |-> h]
    /\ UNCHANGED <<records, held, frame, viewport_size, previous_viewport_size,
                   surface_size>>
    /\ CompositorFrame

\* a FlutterLayer: its content type, the backing store or the platform view
\* it shows, its offset and size, and the mutations of a platform view
Layer(type, store, id, offset, size, mutations) ==
    [type |-> type, store |-> store, id |-> id, offset |-> offset,
     size |-> size, mutations |-> mutations]

BackingStoreLayer(h) == Layer("BackingStore", h, 0, <<0, 0>>, <<800, 600>>, <<>>)
PlatformViewLayer(id) == Layer("PlatformView", 0, id, <<0, 0>>, <<800, 600>>, <<>>)

Command(op, layer, idx, arg) ==
    [op |-> op, store |-> layer.store, id |-> layer.id, layer |-> idx, arg |-> arg]

\* the uniform_buffers vector: one entry per layer, the default uniform for a
\* layer that is no backing store
uniform_buffers(layers, viewport) ==
    [i \in 1 .. Len(layers) |->
        IF layers[i].type = "BackingStore" THEN <<i, viewport>> ELSE <<>>]

\* the layer loop visiting the layers from the last to the first
RECURSIVE layer_commands_reversed(_, _, _)
layer_commands_reversed(layers, idx, uniforms) ==
    IF idx > Len(layers) THEN <<>>
    ELSE LET layer == layers[Len(layers) + 1 - idx]
         IN  (IF layer.type = "BackingStore"
              THEN <<Command("draw", layer, Len(layers) + 1 - idx, <<>>)>>
              ELSE <<>>)
             \o layer_commands_reversed(layers, idx + 1, uniforms)

\* the loop `for (idx, &layer) in layers.iter()...enumerate()` of
\* present_layers_callback: the commands it issues from layer idx on
RECURSIVE layer_commands(_, _, _)
layer_commands(layers, idx, uniforms) ==
    IF idx > Len(layers) THEN <<>>
    ELSE LET layer == layers[idx]
         IN  (IF layer.type = "BackingStore"
              THEN << Command("write_buffer", layer, idx, uniforms[idx]),
                      Command("set_bind_group", layer, idx, <<0>>),
                      Command("set_bind_group", layer, idx, <<1>>),
                      Command("draw", layer, idx, <<>>) >>
              ELSE << Command("render_platform_view", layer, idx,
                              <<layer.id, layer.offset, layer.size,
                                layer.mutations>>) >>)
             \o layer_commands(layers, idx + 1, uniforms)

\* present_layers_callback: reconfigures the surface when the viewport size
\* changed, begins one render pass, walks the layers, submits and presents.
present_layers_callback(layers) ==
    /\ ~panicked
    /\ IF viewport_size # previous_viewport_size
       THEN /\ surface_size' = viewport_size
            /\ previous_viewport_size' = viewport_size
       ELSE UNCHANGED <<surface_size, previous_viewport_size>>
    /\ frame' = [passes |-> 1,
                 commands |-> layer_commands(layers, 1,
                                  uniform_buffers(layers, viewport_size)),
                 layers |-> layers,
                 submitted |-> TRUE,
                 presented |-> TRUE]
    /\ lastCallback' = [name |-> "present_layers_callback", handle |-> 0]
    /\ UNCHANGED <<records, held, viewport_size>>
    /\ CompositorFrame

\* Inputs of the compositor specification: the engine presents layers of the
\* two content types, backing-store layers naming stores it holds
PlatformViewIds == {7}

Layers(stores) ==
    {BackingStoreLayer(h) : h \in stores}
    \cup {PlatformViewLayer(id) : id \in PlatformViewIds}

LayerLists(stores) == UNION {[1 .. n -> Layers(stores)] : n \in 0 .. MaxLayers}

CompositorNext ==
    \/ \E h \in 1 .. MaxHandles : create_backing_store_callback(h)
    \/ \E h \in 1 .. MaxHandles : backing_store_collect_callback(h)
    \/ \E h \in 1 .. MaxHandles : destroy_texture(h)
    \/ \E layers \in LayerLists(held) : present_layers_callback(layers)

CompositorSpec == Init /\ [][CompositorNext]_vars

---------------------------------------------------------------------------
\* Claims about the compositor

\* C6: a step that frees a backing-store record is a destroy_texture call
\* with the handle of that record, the record was live and is freed once;
\* no address ever has more frees than allocations; collect and present
\* free nothing; create allocates only at an address holding no live record
\* and frees nothing.
C6_FreedOnceByDestroy ==
    [][\A h \in 1 .. MaxHandles :
          /\ records'[h].frees <= records'[h].allocs
          /\ records'[h].frees # records[h].frees =>
                /\ lastCallback' = [name |-> "destroy_texture", handle |-> h]
                /\ Live(h)
                /\ records'[h].frees = records[h].frees + 1
                /\ records'[h].allocs = records[h].allocs
          /\ records'[h].allocs # records[h].allocs =>
                /\ lastCallback' = [name |-> "create_backing_store_callback",
                                    handle |-> h]
                /\ ~Live(h)
                /\ records'[h].allocs = records[h].allocs + 1
                /\ \A g \in 1 .. MaxHandles : records'[g].frees = records[g].frees
      ]_vars

\* C6 witness: a record was freed by the destruction callback, its address
\* holds a second, live record, and a present has taken place.
C6_Witness ==
    \E h \in 1 .. MaxHandles :
        /\ records[h].allocs = 2
        /\ records[h].frees = 1
        /\ h \in held
        /\ frame.presented

\* the positions of the backing-store layers in a layer list, in order
BackingStoreIndices(layers) ==
    LET IsBackingStore(i) == layers[i].type = "BackingStore"
    IN  SelectSeq([i \in 1 .. Len(layers) |-> i], IsBackingStore)

\* the draw calls of a command list, in order
DrawCalls(commands) ==
    LET IsDraw(c) == c.op = "draw"
    IN  SelectSeq(commands, IsDraw)

\* C7: the draw calls of a present are, in order, exactly one per
\* backing-store layer of the layer list it was given, each for the store of
\* its layer, and all of them are in the single render pass of that present.
C7_DrawsInLayerOrder ==
    frame.presented =>
        LET draws == DrawCalls(frame.commands)
            backing == BackingStoreIndices(frame.layers)
        IN  /\ frame.passes = 1
            /\ Len(draws) = Len(backing)
            /\ \A k \in 1 .. Len(draws) :
                  /\ draws[k].layer = backing[k]
                  /\ draws[k].store = frame.layers[backing[k]].store

\* C7 witness: a present of two backing-store layers [A, B] over different
\* stores has issued two draws.
C7_Witness ==
    /\ frame.presented
    /\ Len(frame.layers) = 2
    /\ frame.layers[1].type = "BackingStore"
    /\ frame.layers[2].type = "BackingStore"
    /\ frame.layers[1].store # frame.layers[2].store
    /\ Len(DrawCalls(frame.commands)) = 2

---------------------------------------------------------------------------
\* Standard message codec (flutter_application/message_codec.rs)
\*
\* A buffer is a sequence of bytes 0 .. 255; Deserializer.pos counts from 0,
\* so input[pos] of the code is input[pos + 1] here.  from_slice is modelled
\* for a target type that accepts every value (deserialize_any) and whose
\* sequence and map visitors take every element they are offered.

\* enum FlutterStandardField, by discriminant
FlutterStandardField ==
    << "Nil", "True", "False", "Int32", "Int64", "IntHex", "Float64", "String",
       "UInt8Data", "Int32Data", "Int64Data", "Float64Data", "List", "Map",
       "Float32Data" >>

\* FromPrimitive::from_u8
from_u8(byte) ==
    IF byte < Len(FlutterStandardField) THEN Some(FlutterStandardField[byte + 1])
    ELSE None

\* Results of the reading functions: the new cursor, "Ok" or the Error
\* variant, and what was read
Ok(pos, val) == [pos |-> pos, err |-> "Ok", val |-> val]
Err(pos, err) == [pos |-> pos, err |-> err, val |-> <<>>]

\* read_bytes::<N>
read_bytes(inp, pos, N) ==
    IF pos + N > Len(inp) THEN Err(pos, "Eof")
    ELSE Ok(pos + N, SubSeq(inp, pos + 1, pos + N))

\* read_byte
read_byte(inp, pos) ==
    LET r == read_bytes(inp, pos, 1)
    IN  IF r.err # "Ok" THEN r ELSE Ok(r.pos, r.val[1])

\* read_field_type
read_field_type(inp, pos) ==
    LET r == read_byte(inp, pos)
    IN  IF r.err # "Ok" THEN r
        ELSE IF from_u8(r.val) = None THEN Err(r.pos, "InvalidFieldType")
        ELSE Ok(r.pos, Unwrap(from_u8(r.val)))

\* peek_field_type
peek_field_type(inp, pos) ==
    IF pos >= Len(inp) THEN Err(pos, "Eof")
    ELSE IF from_u8(inp[pos + 1]) = None THEN Err(pos, "InvalidFieldType")
    ELSE Ok(pos, Unwrap(from_u8(inp[pos + 1])))

\* u16::from_le_bytes, u32::from_le_bytes
u16_from_le_bytes(b) == b[1] + 256 * b[2]
u32_from_le_bytes(b) == b[1] + 256 * b[2] + 65536 * b[3] + 16777216 * b[4]

\* i32::from_le_bytes: two's complement
i32_from_le_bytes(b) ==
    b[1] + 256 * b[2] + 65536 * b[3]
    + 16777216 * (IF b[4] < 128 THEN b[4] ELSE b[4] - 256)

\* i64::from_le_bytes, kept as the pair of its 32-bit halves: the value is
\* hi * 2^32 + (lo mod 2^32)
i64_from_le_bytes(b) ==
    [lo |-> i32_from_le_bytes(SubSeq(b, 1, 4)),
     hi |-> i32_from_le_bytes(SubSeq(b, 5, 8))]

read_size_big_endian(inp, pos) ==
    LET byte == read_byte(inp, pos)
    IN  IF byte.err # "Ok" THEN byte
        ELSE IF byte.val < 254 THEN byte
        ELSE IF byte.val = 254
             THEN LET r == read_bytes(inp, byte.pos, 2)
                  IN  IF r.err # "Ok" THEN r
                      ELSE Ok(r.pos, u16_from_le_bytes(<<r.val[2], r.val[1]>>))
             ELSE LET r == read_bytes(inp, byte.pos, 4)
                  IN  IF r.err # "Ok" THEN r
                      ELSE Ok(r.pos, u32_from_le_bytes(<<r.val[4], r.val[3],
                                                         r.val[2], r.val[1]>>))

\* read_size
read_size(inp, pos) ==
    LET byte == read_byte(inp, pos)
    IN  IF byte.err # "Ok" THEN byte
        ELSE IF byte.val < 254 THEN byte
        ELSE IF byte.val = 254
             THEN LET r == read_bytes(inp, byte.pos, 2)
                  IN  IF r.err # "Ok" THEN r
                      ELSE Ok(r.pos, u16_from_le_bytes(r.val))
             ELSE LET r == read_bytes(inp, byte.pos, 4)
                  IN  IF r.err # "Ok" THEN r
                      ELSE Ok(r.pos, u32_from_le_bytes(r.val))

\* read_data
read_data(inp, pos, len) ==
    IF pos + len > Len(inp) THEN Err(pos, "Eof")
    ELSE Ok(pos + len, SubSeq(inp, pos + 1, pos + len))

\* A decoded value: its kind and its content as a sequence
Value(t, v) == [t |-> t, v |-> v]

size_of_wide(field) == 8

\* size_of::<N>() for the element type of a numeric array
size_of(field) == IF field \in {"Int32Data", "Float32Data"} THEN 4 ELSE 8

\* N::try_from_le_bytes followed by number.into_deserializer(): the number
\* the visitor is given; a float is kept as its bit pattern
try_from_le_bytes(field, bytes) ==
    CASE field = "Int32Data" -> Value("I32", <<i32_from_le_bytes(bytes)>>)
      [] field = "Float32Data" -> Value("F32", <<i32_from_le_bytes(bytes)>>)
      [] field = "Int64Data" -> Value("I64", <<i64_from_le_bytes(bytes)>>)
      [] OTHER -> Value("F64", <<i64_from_le_bytes(bytes)>>)

\* PrimitiveListDeserializer::new without the padding
PrimitiveListDeserializer_new_unpadded(pos, size) == pos

\* PrimitiveListDeserializer::new: the cursor after the alignment padding
PrimitiveListDeserializer_new(pos, size) ==
    LET modulo == pos % size
    IN  IF modulo # 0 THEN pos + (size - modulo) ELSE pos

\* PrimitiveListDeserializer::next_element_seed, called until it returns
\* None or an error: the elements read
RECURSIVE primitive_elements(_, _, _, _, _)
primitive_elements(inp, pos, len, field, acc) ==
    IF len = 0 THEN Ok(pos, acc)
    ELSE LET bytes == read_data(inp, pos, size_of(field))
         IN  IF bytes.err # "Ok" THEN bytes
             ELSE primitive_elements(inp, bytes.pos, len - 1, field,
                                     Append(acc, try_from_le_bytes(field, bytes.val)))

\* std::str::from_utf8: TRUE when the bytes are well-formed UTF-8
RECURSIVE from_utf8(_)
from_utf8(b) ==
    LET n == Len(b)
        cont(i) == i <= n /\ b[i] >= 128 /\ b[i] <= 191
        in(i, lo, hi) == i <= n /\ b[i] >= lo /\ b[i] <= hi
        rest(k) == from_utf8(SubSeq(b, k + 1, n))
    IN  IF \A i \in 1 .. n : b[i] < 128 THEN TRUE
        ELSE CASE b[1] < 128 -> rest(1)
               [] b[1] >= 194 /\ b[1] <= 223 -> cont(2) /\ rest(2)
               [] b[1] = 224 -> in(2, 160, 191) /\ cont(3) /\ rest(3)
               [] b[1] = 237 -> in(2, 128, 159) /\ cont(3) /\ rest(3)
               [] b[1] >= 225 /\ b[1] <= 239 /\ b[1] # 237 -> cont(2) /\ cont(3) /\ rest(3)
               [] b[1] = 240 -> in(2, 144, 191) /\ cont(3) /\ cont(4) /\ rest(4)
               [] b[1] >= 241 /\ b[1] <= 243 ->
                      cont(2) /\ cont(3) /\ cont(4) /\ rest(4)
               [] b[1] = 244 -> in(2, 128, 143) /\ cont(3) /\ cont(4) /\ rest(4)
               [] OTHER -> FALSE

\* deserialize_bool
deserialize_bool(inp, pos) ==
    LET t == read_field_type(inp, pos)
    IN  IF t.err # "Ok" THEN t
        ELSE CASE t.val = "True" -> Ok(t.pos, Value("Bool", <<TRUE>>))
               [] t.val = "False" -> Ok(t.pos, Value("Bool", <<FALSE>>))
               [] OTHER -> Err(t.pos, "InvalidFieldType")

\* deserialize_i32
deserialize_i32(inp, pos) ==
    LET t == read_field_type(inp, pos)
    IN  IF t.err # "Ok" THEN t
        ELSE IF t.val = "Int32"
             THEN LET b == read_bytes(inp, t.pos, 4)
                  IN  IF b.err # "Ok" THEN b
                      ELSE Ok(b.pos, Value("I32", <<i32_from_le_bytes(b.val)>>))
             ELSE Err(t.pos, "InvalidFieldType")

\* deserialize_i64
deserialize_i64(inp, pos) ==
    LET t == read_field_type(inp, pos)
    IN  IF t.err # "Ok" THEN t
        ELSE IF t.val = "Int64"
             THEN LET b == read_bytes(inp, t.pos, 8)
                  IN  IF b.err # "Ok" THEN b
                      ELSE Ok(b.pos, Value("I64", <<i64_from_le_bytes(b.val)>>))
             ELSE Err(t.pos, "InvalidFieldType")

\* deserialize_f64; the float is kept as its bit pattern
deserialize_f64(inp, pos) ==
    LET t == read_field_type(inp, pos)
    IN  IF t.err # "Ok" THEN t
        ELSE IF t.val = "Float64"
             THEN LET b == read_bytes(inp, t.pos, 8)
                  IN  IF b.err # "Ok" THEN b
                      ELSE Ok(b.pos, Value("F64", <<i64_from_le_bytes(b.val)>>))
             ELSE Err(t.pos, "InvalidFieldType")

\* deserialize_str
deserialize_str(inp, pos) ==
    LET t == read_field_type(inp, pos)
    IN  IF t.err # "Ok" THEN t
        ELSE IF t.val \in {"IntHex", "String"}
             THEN LET len == read_size(inp, t.pos)
                  IN  IF len.err # "Ok" THEN len
                      ELSE LET bytes == read_data(inp, len.pos, len.val)
                           IN  IF bytes.err # "Ok" THEN bytes
                               ELSE IF ~from_utf8(bytes.val)
                                    THEN Err(bytes.pos, "Utf8Error")
                                    ELSE Ok(bytes.pos, Value("Str", bytes.val))
             ELSE Err(t.pos, "InvalidFieldType")

\* deserialize_bytes
deserialize_bytes(inp, pos) ==
    LET t == read_field_type(inp, pos)
    IN  IF t.err # "Ok" THEN t
        ELSE IF t.val = "UInt8Data"
             THEN LET len == read_size(inp, t.pos)
                  IN  IF len.err # "Ok" THEN len
                      ELSE LET bytes == read_data(inp, len.pos, len.val)
                           IN  IF bytes.err # "Ok" THEN bytes
                               ELSE Ok(bytes.pos, Value("Bytes", bytes.val))
             ELSE Err(t.pos, "InvalidFieldType")

RECURSIVE deserialize_any(_, _)
RECURSIVE list_elements(_, _, _, _)
RECURSIVE map_entries(_, _, _, _)

\* deserialize_option
deserialize_option(inp, pos) ==
    LET t == peek_field_type(inp, pos)
    IN  IF t.err # "Ok" THEN t
        ELSE IF t.val = "Nil"
             THEN LET r == read_field_type(inp, pos)
                  IN  IF r.err # "Ok" THEN r ELSE Ok(r.pos, Value("None", <<>>))
             ELSE deserialize_any(inp, pos)

\* deserialize_seq
deserialize_seq(inp, pos) ==
    LET t == read_field_type(inp, pos)
    IN  IF t.err # "Ok" THEN t
        ELSE IF t.val \in {"List", "Int32Data", "Int64Data", "Float32Data",
                           "Float64Data"}
             THEN LET len == read_size(inp, t.pos)
                  IN  IF len.err # "Ok" THEN len
                      ELSE LET r == IF t.val = "List"
                                    THEN list_elements(inp, len.pos, len.val, <<>>)
                                    ELSE primitive_elements(inp,
                                             PrimitiveListDeserializer_new(
                                                 len.pos, size_of(t.val)),
                                             len.val, t.val, <<>>)
                           IN  IF r.err # "Ok" THEN r
                               ELSE Ok(r.pos, Value("Seq", r.val))
             ELSE Err(t.pos, "InvalidFieldType")

\* deserialize_map
deserialize_map(inp, pos) ==
    LET t == read_field_type(inp, pos)
    IN  IF t.err # "Ok" THEN t
        ELSE IF t.val = "Map"
             THEN LET len == read_size(inp, t.pos)
                  IN  IF len.err # "Ok" THEN len
                      ELSE LET r == map_entries(inp, len.pos, len.val, <<>>)
                           IN  IF r.err # "Ok" THEN r
                               ELSE Ok(r.pos, Value("Map", r.val))
             ELSE Err(t.pos, "InvalidFieldType")

\* deserialize_any
deserialize_any(inp, pos) ==
    LET t == peek_field_type(inp, pos)
    IN  IF t.err # "Ok" THEN t
        ELSE CASE t.val = "Nil" -> deserialize_option(inp, pos)
               [] t.val \in {"True", "False"} -> deserialize_bool(inp, pos)
               [] t.val = "Int32" -> deserialize_i32(inp, pos)
               [] t.val = "Int64" -> deserialize_i64(inp, pos)
               [] t.val = "IntHex" -> deserialize_str(inp, pos)
               [] t.val = "Float64" -> deserialize_f64(inp, pos)
               [] t.val = "String" -> deserialize_str(inp, pos)
               [] t.val = "UInt8Data" -> deserialize_bytes(inp, pos)
               [] t.val \in {"Int32Data", "Int64Data", "Float32Data",
                             "Float64Data", "List"} -> deserialize_seq(inp, pos)
               [] t.val = "Map" -> deserialize_map(inp, pos)

\* ListDeserializer as SeqAccess: next_element_seed called until it returns
\* None or an error.  The len calls are made in order, the first half of
\* them and then the rest.
list_elements(inp, pos, len, acc) ==
    IF len = 0 THEN Ok(pos, acc)
    ELSE IF len = 1
         THEN LET e == deserialize_any(inp, pos)
              IN  IF e.err # "Ok" THEN e ELSE Ok(e.pos, Append(acc, e.val))
         ELSE LET first == list_elements(inp, pos, len \div 2, acc)
              IN  IF first.err # "Ok" THEN first
                  ELSE list_elements(inp, first.pos, len - (len \div 2), first.val)

\* ListDeserializer as MapAccess: next_key_seed and next_value_seed called
\* until next_key_seed returns None or one of them an error.  The len pairs
\* of calls are made in order, the first half of them and then the rest.
map_entries(inp, pos, len, acc) ==
    IF len = 0 THEN Ok(pos, acc)
    ELSE IF len = 1
         THEN LET k == deserialize_any(inp, pos)
              IN  IF k.err # "Ok" THEN k
                  ELSE LET v == deserialize_any(inp, k.pos)
                       IN  IF v.err # "Ok" THEN v
                           ELSE Ok(v.pos, Append(acc, <<k.val, v.val>>))
         ELSE LET first == map_entries(inp, pos, len \div 2, acc)
              IN  IF first.err # "Ok" THEN first
                  ELSE map_entries(inp, first.pos, len - (len \div 2), first.val)

\* from_slice that returns the value whatever is left of the buffer
from_slice_unchecked(b) ==
    LET t == deserialize_any(b, 0)
    IN  IF t.err # "Ok" THEN [status |-> t.err, pos |-> t.pos, value |-> <<>>]
        ELSE [status |-> "Ok", pos |-> t.pos, value |-> <<t.val>>]

\* from_slice
from_slice(b) ==
    LET t == deserialize_any(b, 0)
    IN  IF t.err # "Ok" THEN [status |-> t.err, pos |-> t.pos, value |-> <<>>]
        ELSE IF Len(b) = t.pos
             THEN [status |-> "Ok", pos |-> t.pos, value |-> <<t.val>>]
             ELSE [status |-> "TrailingCharacters", pos |-> t.pos, value |-> <<>>]

\* A caller decodes the buffer it was given
Decode ==
    /\ result = Pending
    /\ result' = from_slice(input)
    /\ UNCHANGED <<message, input, bridgeVars, keyVars, compVars, viewVars,
                   pointerVars>>

\* Inputs of the codec specification

\* well-formed messages, one per kind of field
NilMessage == <<0>>
TrueMessage == <<1>>
FalseMessage == <<2>>
Int32Message == <<3, 1, 0, 0, 128>>
Int64Message == <<4, 1, 2, 3, 4, 5, 6, 7, 8>>
IntHexMessage == <<5, 2, 49, 50>>
Float64Message == <<6, 0, 0, 0, 0, 0, 0, 240, 63>>
StringMessage == <<7, 3, 97, 195, 169>>
String16Message == <<7, 254, 2, 0, 97, 98>>
String32Message == <<7, 255, 1, 0, 0, 0, 97>>
UInt8DataMessage == <<8, 2, 200, 1>>
Int32DataMessage == <<9, 1, 0, 0, 5, 0, 0, 0>>
EmptyInt32DataMessage == <<9, 0, 0, 0>>
Int64DataMessage == <<10, 1, 0, 0, 0, 0, 0, 0, 5, 0, 0, 0, 0, 0, 0, 0>>
EmptyInt64DataMessage == <<10, 0, 0, 0, 0, 0, 0, 0>>
Float64DataMessage == <<11, 1, 0, 0, 0, 0, 0, 0, 0, 0, 0, 0, 0, 0, 240, 63>>
Float32DataMessage == <<14, 2, 0, 0, 0, 0, 128, 63, 0, 0, 0, 64>>
\* the list ["a", Int64List [9]]: the array's size byte ends at offset 7, one
\* byte of padding follows
PaddedListMessage == <<12, 2, 7, 1, 97, 10, 1, 0, 9, 0, 0, 0, 0, 0, 0, 0>>
\* the list [Int32List [5]]: the array's size byte ends at offset 4
AlignedListMessage == <<12, 1, 9, 1, 5, 0, 0, 0>>
MapMessage == <<13, 1, 7, 1, 97, 3, 1, 0, 0, 0>>
NestedMessage == <<12, 2, 12, 1, 0, 13, 0>>

Messages ==
    { NilMessage, TrueMessage, FalseMessage, Int32Message, Int64Message,
      IntHexMessage, Float64Message, StringMessage, String16Message,
      String32Message, UInt8DataMessage, Int32DataMessage, EmptyInt32DataMessage,
      Int64DataMessage, EmptyInt64DataMessage, Float64DataMessage,
      Float32DataMessage, PaddedListMessage, AlignedListMessage, MapMessage,
      NestedMessage }

\* bytes of the exhaustively enumerated buffers: every type tag, the first
\* byte that is no tag, a letter and the two size markers
SampleBytes == (0 .. 15) \cup {97, 254, 255}

ShortBuffers == UNION {[1 .. n -> SampleBytes] : n \in 0 .. MaxBufLen}

Prefixes(m) == {SubSeq(m, 1, n) : n \in 0 .. Len(m)}

CodecInputs ==
    ShortBuffers
    \cup UNION {Prefixes(m) : m \in Messages}
    \cup {m \o <<b>> : m \in Messages, b \in {0, 255}}
    \cup {<<b>> \o Tail(m) : m \in Messages, b \in {15, 100, 255}}

CodecInit ==
    /\ BridgeInit
    /\ CompositorInit
    /\ PlatformViewsInit
    /\ PointerInit
    /\ message = None
    /\ input \in CodecInputs
    /\ result = Pending

CodecNext == Decode

CodecSpec == CodecInit /\ [][CodecNext]_vars

---------------------------------------------------------------------------
\* Claims about the codec

\* the buffer is a well-formed message cut short: it ends inside a field
Truncated(b) ==
    \E m \in Messages : Len(b) > 0 /\ Len(b) < Len(m) /\ b = SubSeq(m, 1, Len(b))

\* the buffer is a well-formed message followed by more bytes
HasTrailingBytes(b) ==
    \E m \in Messages : Len(m) < Len(b) /\ m = SubSeq(b, 1, Len(m))

\* C8 as stated: decoding a buffer that ends inside a field returns the
\* end-of-input error, and a read function hands out bytes only from inside
\* the buffer.
C8_TruncatedYieldsEof ==
    /\ result # Pending /\ Truncated(input) => result.status = "Eof"
    /\ \A pos \in 0 .. Len(input) + 1, n \in 0 .. 8 :
          /\ read_bytes(input, pos, n).err = "Ok" => pos + n <= Len(input)
          /\ read_data(input, pos, n).err = "Ok" => pos + n <= Len(input)
          /\ peek_field_type(input, pos).err \in {"Ok", "InvalidFieldType"}
                => pos < Len(input)

\* C9: from_slice returns a value only with the cursor at the end of the
\* buffer; a well-formed message followed by at least one more byte gives
\* TrailingCharacters and no value; a first byte that is none of the 15 type
\* tags gives InvalidFieldType.
C9_WholeBufferOrError ==
    result # Pending =>
        /\ result.status = "Ok" => result.pos = Len(input) /\ result.value # <<>>
        /\ result.status # "Ok" => result.value = <<>>
        /\ HasTrailingBytes(input) => result.status = "TrailingCharacters"
        /\ (input # <<>> /\ input[1] >= 15) => result.status = "InvalidFieldType"

\* C9 witness: a well-formed map followed by one byte was refused with
\* TrailingCharacters.
C9_Witness ==
    /\ input = MapMessage \o <<0>>
    /\ result.status = "TrailingCharacters"
    /\ result.pos = Len(MapMessage)

\* what PaddedListMessage and AlignedListMessage encode
PaddedListValue ==
    Value("Seq", << Value("Str", <<97>>),
                    Value("Seq", <<Value("I64", <<[lo |-> 9, hi |-> 0]>>)>>) >>)
AlignedListValue ==
    Value("Seq", << Value("Seq", <<Value("I32", <<5>>)>>) >>)

\* C10: the cursor a numeric array starts to read its elements at is the
\* least multiple of the element size (4 or 8) that is not before the cursor
\* it was found at, so an aligned cursor stays; the buffer with a 64-bit
\* array after a one-byte string and one byte of padding decodes to that
\* string and that array, and the already aligned 32-bit array to its element.
C10_ArrayAlignment ==
    /\ \A pos \in 0 .. Len(input) + 8, size \in {4, 8} :
          LET p == PrimitiveListDeserializer_new(pos, size)
          IN  /\ p % size = 0
              /\ p >= pos
              /\ p - pos < size
    /\ (result # Pending /\ input = PaddedListMessage) =>
          result = [status |-> "Ok", pos |-> Len(PaddedListMessage),
                    value |-> <<PaddedListValue>>]
    /\ (result # Pending /\ input = AlignedListMessage) =>
          result = [status |-> "Ok", pos |-> Len(AlignedListMessage),
                    value |-> <<AlignedListValue>>]

\* C10 witness: the padded list has been decoded.
C10_Witness ==
    /\ input = PaddedListMessage
    /\ result.status = "Ok"
    /\ result.value = <<PaddedListValue>>

---------------------------------------------------------------------------
\* Size prefixes: Deserializer::read_size on its own

\* A caller reads one size at the start of the buffer it was given
Deserializer_read_size ==
    /\ result = Pending
    /\ LET r == read_size(input, 0)
       IN  result' = [status |-> r.err, pos |-> r.pos,
                      value |-> IF r.err = "Ok" THEN <<r.val>> ELSE <<>>]
    /\ UNCHANGED <<message, input, bridgeVars, keyVars, compVars, viewVars,
                   pointerVars>>

\* Bytes of a size prefix: both ends of the inline range, the two markers
\* and bytes on either side of the sign bit.  The most significant byte of a
\* 32-bit size stays below 128 so that the size fits the checker's integers.
SizeBytes == {0, 1, 127, 128, 253, 254, 255}
SizeTopBytes == {0, 1, 127}

SizeInputs ==
    UNION {[1 .. n -> SizeBytes] : n \in 0 .. MaxBufLen}
    \cup {<<255, a, b, c, d>> \o t : a, b, c \in SizeBytes, d \in SizeTopBytes,
                                    t \in {<<>>, <<7>>}}
    \cup {<<254, a, b, c>> : a, b \in SizeBytes, c \in {7}}
    \cup {<<253, 7>>, <<255, 1, 2, 3>>, <<255, 1, 2>>}

SizeInit ==
    /\ BridgeInit
    /\ CompositorInit
    /\ PlatformViewsInit
    /\ PointerInit
    /\ message = None
    /\ input \in SizeInputs
    /\ result = Pending

SizeNext == Deserializer_read_size

SizeSpec == SizeInit /\ [][SizeNext]_vars

\* C11: read_size on a buffer starting with a byte b below 254 gives b and
\* has consumed 1 byte; starting with 254 and two more bytes it gives their
\* little-endian 16-bit value and has consumed 3; starting with 255 and four
\* more bytes it gives their little-endian 32-bit value and has consumed 5;
\* a buffer too short for its prefix gives Eof.
C11_ReadSize ==
    result # Pending =>
        /\ (Len(input) >= 1 /\ input[1] < 254) =>
              result = [status |-> "Ok", pos |-> 1, value |-> <<input[1]>>]
        /\ (Len(input) >= 3 /\ input[1] = 254) =>
              result = [status |-> "Ok", pos |-> 3,
                        value |-> <<input[2] + 256 * input[3]>>]
        /\ (Len(input) >= 5 /\ input[1] = 255) =>
              result = [status |-> "Ok", pos |-> 5,
                        value |-> <<input[2] + 256 * input[3] + 65536 * input[4]
                                    + 16777216 * input[5]>>]
        /\ (input = <<>> \/ (input[1] = 254 /\ Len(input) < 3)
                         \/ (input[1] = 255 /\ Len(input) < 5)) =>
              result.status = "Eof"

\* C11 witness: the 32-bit size 0x7F80FE01 was read from a five-byte prefix
\* followed by one more byte.
C11_Witness ==
    /\ input = <<255, 1, 254, 128, 127, 7>>
    /\ result = [status |-> "Ok", pos |-> 5, value |-> <<2139160065>>]

---------------------------------------------------------------------------
\* Round trip: a value is encoded as section 4.1 of the specification says
\* and the buffer is decoded by from_slice.  message_codec.rs has no encoder.
\*
\* A value to encode is a Value whose kind is one of None, Bool, I32, I64,
\* F64, Str, Bytes, Seq, Map or, for a numeric array, the name of its field
\* type with the elements as its content.  Floats are bit patterns.

\* strings of this many bytes are placed before each kind of array
MaxStrLen == 7

ArrayKinds == {"Int32Data", "Int64Data", "Float32Data", "Float64Data"}

\* the discriminant of a field type
tag(field) == CHOOSE i \in 0 .. 14 : FlutterStandardField[i + 1] = field

\* i32::to_le_bytes, and the same for the two halves of a 64-bit value
to_le_bytes_i32(x) ==
    << x % 256, (x \div 256) % 256, (x \div 65536) % 256,
       (x \div 16777216) % 256 >>
to_le_bytes_i64(x) == to_le_bytes_i32(x.lo) \o to_le_bytes_i32(x.hi)

\* a size in the smallest of the three widths that holds it
write_size(n) ==
    IF n < 254 THEN <<n>>
    ELSE IF n <= 65535 THEN <<254, n % 256, n \div 256>>
    ELSE <<255>> \o to_le_bytes_i32(n)

\* zero bytes up to the next multiple of size
write_alignment(pos, size) == [i \in 1 .. ((size - (pos % size)) % size) |-> 0]

\* bytes of one element of a numeric array: its natural alignment
element_size(field) == IF field \in {"Int32Data", "Float32Data"} THEN 4 ELSE 8

RECURSIVE write_elements(_, _)
write_elements(field, elems) ==
    IF elems = <<>> THEN <<>>
    ELSE (IF element_size(field) = 4 THEN to_le_bytes_i32(Head(elems).v[1])
          ELSE to_le_bytes_i64(Head(elems).v[1]))
         \o write_elements(field, Tail(elems))

RECURSIVE encode(_, _)
RECURSIVE write_values(_, _)

\* the values of a list, or the alternating keys and values of a map, one
\* after the other; pos is the offset the first is written at
write_values(vals, pos) ==
    IF vals = <<>> THEN <<>>
    ELSE IF Len(vals) = 1 THEN encode(vals[1], pos)
    ELSE LET half == Len(vals) \div 2
             first == write_values(SubSeq(vals, 1, half), pos)
         IN  first \o write_values(SubSeq(vals, half + 1, Len(vals)),
                                   pos + Len(first))

flatten(entries) ==
    [i \in 1 .. 2 * Len(entries) |-> entries[(i + 1) \div 2][2 - (i % 2)]]

\* the bytes of value v when they are written at offset pos of the buffer
encode(v, pos) ==
    CASE v.t = "None" -> <<tag("Nil")>>
      [] v.t = "Bool" -> IF v.v[1] THEN <<tag("True")>> ELSE <<tag("False")>>
      [] v.t = "I32" -> <<tag("Int32")>> \o to_le_bytes_i32(v.v[1])
      [] v.t = "I64" -> <<tag("Int64")>> \o to_le_bytes_i64(v.v[1])
      [] v.t = "F64" -> <<tag("Float64")>> \o to_le_bytes_i64(v.v[1])
      [] v.t = "Str" -> <<tag("String")>> \o write_size(Len(v.v)) \o v.v
      [] v.t = "Bytes" -> <<tag("UInt8Data")>> \o write_size(Len(v.v)) \o v.v
      [] v.t \in ArrayKinds ->
            LET head == <<tag(v.t)>> \o write_size(Len(v.v))
            IN  head \o write_alignment(pos + Len(head), element_size(v.t))
                     \o write_elements(v.t, v.v)
      [] v.t = "Seq" ->
            LET head == <<tag("List")>> \o write_size(Len(v.v))
            IN  head \o write_values(v.v, pos + Len(head))
      [] v.t = "Map" ->
            LET head == <<tag("Map")>> \o write_size(Len(v.v))
            IN  head \o write_values(flatten(v.v), pos + Len(head))

\* What the visitor of from_slice is handed for value v: a numeric array
\* arrives as the sequence of its elements (deserialize_seq).
RECURSIVE visited(_)
visited(v) ==
    CASE v.t \in ArrayKinds -> Value("Seq", v.v)
      [] v.t = "Seq" -> Value("Seq", [i \in 1 .. Len(v.v) |-> visited(v.v[i])])
      [] v.t = "Map" -> Value("Map", [i \in 1 .. Len(v.v) |->
                                         <<visited(v.v[i][1]), visited(v.v[i][2])>>])
      [] OTHER -> v


\* A sender encodes its value into an empty buffer
Encode ==
    /\ message # None
    /\ input = <<>>
    /\ input' = encode(Unwrap(message), 0)
    /\ UNCHANGED <<message, result, bridgeVars, keyVars, compVars, viewVars,
                   pointerVars>>

\* Values of the round trip
Repeat(n, x) == [i \in 1 .. n |-> x]

Int32s == {0, -1, 2147483647, -2147483647 - 1}
Int64s == { [lo |-> 0, hi |-> 0], [lo |-> -1, hi |-> -1],
            [lo |-> -2147483647 - 1, hi |-> 2147483647],
            [lo |-> 1, hi |-> -2147483647 - 1] }
\* 1.0 and -0.0; 1.0 and -1.0
Float64s == {[lo |-> 0, hi |-> 1072693248], [lo |-> 0, hi |-> -2147483647 - 1]}
Float32s == {1065353216, -1082130432}

\* Values are grouped by the type of their content: a set holds values of
\* one group only.
BoolValues == {Value("Bool", <<TRUE>>), Value("Bool", <<FALSE>>)}

\* lengths on both sides of the two size-prefix thresholds
BoundaryLengths == {253, 254, 65535, 65536}

ByteValues ==
    {Value("None", <<>>)}
    \cup {Value("I32", <<x>>) : x \in Int32s}
    \cup {Value("Str", t) : t \in {<<>>, <<97>>, <<97, 195, 169>>}}
    \cup {Value("Bytes", t) : t \in {<<>>, <<200, 1>>}}
    \cup {Value("Bytes", Repeat(n, 200)) : n \in BoundaryLengths}
    \cup {Value("Str", Repeat(n, 97)) : n \in {253, 254}}

WideValues ==
    {Value("I64", <<x>>) : x \in Int64s} \cup {Value("F64", <<x>>) : x \in Float64s}

Elements(kind) ==
    CASE kind = "Int32Data" -> {Value("I32", <<x>>) : x \in {1, -1}}
      [] kind = "Float32Data" -> {Value("F32", <<x>>) : x \in Float32s}
      [] kind = "Int64Data" ->
            {Value("I64", <<x>>) : x \in {[lo |-> 9, hi |-> 0], [lo |-> -1, hi |-> -1]}}
      [] kind = "Float64Data" -> {Value("F64", <<x>>) : x \in Float64s}

ArrayValues(kind) ==
    {Value(kind, e) : e \in UNION {[1 .. n -> Elements(kind)] : n \in 0 .. 2}}

\* an array after a string of every length up to MaxStrLen: every padding
AlignmentValues(kind) ==
    {Value("Seq", <<Value("Str", Repeat(n, 97)), a>>) :
        n \in 0 .. MaxStrLen, a \in {x \in ArrayValues(kind) : Len(x.v) = 1}}

ListValues ==
    {Value("Seq", Repeat(n, Value("None", <<>>))) : n \in {0, 1, 253, 254}}

MapValues ==
    {Value("Map", Repeat(n, <<Value("Bool", <<TRUE>>), Value("None", <<>>)>>)) :
        n \in {0, 1, 253, 254}}

NestedList ==
    Value("Seq", <<Value("Seq", <<Value("None", <<>>)>>), Value("Map", <<>>)>>)

NestedMap ==
    Value("Map", << <<Value("Str", <<97>>),
                      Value("Int64Data", <<Value("I64", <<[lo |-> 9, hi |-> 0]>>)>>)>>,
                    <<Value("I32", <<1>>),
                      Value("Seq", <<Value("Bool", <<FALSE>>),
                                     Value("Float32Data",
                                           <<Value("F32", <<1065353216>>)>>)>>)>> >>)

Sends(values) == message \in {Some(v) : v \in values}

RoundTripInit ==
    /\ BridgeInit
    /\ CompositorInit
    /\ PlatformViewsInit
    /\ PointerInit
    /\ \/ Sends(BoolValues)
       \/ Sends(ByteValues)
       \/ Sends(WideValues)
       \/ \E kind \in ArrayKinds : Sends(ArrayValues(kind))
       \/ \E kind \in ArrayKinds : Sends(AlignmentValues(kind))
       \/ Sends(ListValues)
       \/ Sends(MapValues)
       \/ Sends({NestedList})
       \/ Sends({NestedMap})
    /\ input = <<>>
    /\ result = Pending

RoundTripNext ==
    \/ Encode
    \/ input # <<>> /\ Decode

RoundTripSpec == RoundTripInit /\ [][RoundTripNext]_vars

\* C12: decoding the encoding of a value gives the value back (a numeric
\* array as the sequence of its elements), with the cursor at the end of the
\* buffer; the size of a string, byte buffer, list or map is written in one
\* byte up to 253, as 254 and two little-endian bytes up to 65535, as 255 and
\* four little-endian bytes from 65536.
C12_RoundTrip ==
    message # None =>
        LET v == Unwrap(message)
            n == Len(v.v)
        IN  /\ result # Pending =>
                  result = [status |-> "Ok", pos |-> Len(input),
                            value |-> <<visited(v)>>]
            /\ (input # <<>> /\ v.t \in {"Str", "Bytes", "Seq", "Map"}) =>
                  /\ n <= 253 => input[2] = n
                  /\ (n >= 254 /\ n <= 65535) =>
                        /\ input[2] = 254
                        /\ input[3] + 256 * input[4] = n
                  /\ n >= 65536 =>
                        /\ input[2] = 255
                        /\ input[3] + 256 * input[4] + 65536 * input[5]
                              + 16777216 * input[6] = n

\* C12 witness: a list of a one-byte string and a 64-bit array came back
\* from a buffer with one byte of padding before the array's elements.
C12_Witness ==
    /\ input = <<12, 2, 7, 1, 97, 10, 1, 0, 255, 255, 255, 255, 255, 255, 255, 255>>
    /\ result.status = "Ok"
    /\ result.value = <<Value("Seq", <<Value("Str", <<97>>),
                          Value("Seq", <<Value("I64", <<[lo |-> -1, hi |-> -1]>>)>>)>>)>>
    /\ message = Some(Value("Seq", <<Value("Str", <<97>>),
                        Value("Int64Data", <<Value("I64", <<[lo |-> -1, hi |-> -1]>>)>>)>>))

---------------------------------------------------------------------------
\* One key event applied to an editing value

\* every text of at most MaxLen scalars with every pair of offsets up to
\* MaxLen or no offset: what TextInput.setEditingState can have stored
Texts == UNION {[1 .. n -> Chars] : n \in 0 .. MaxLen}
Offsets == {None} \cup {Some(i) : i \in 0 .. MaxLen}
EditingValues ==
    [text : Texts, selection_base : Offsets, selection_extent : Offsets]

\* A client is attached, the framework has set an editing value, the
\* modifiers are in some state and the clipboard is empty or holds a text;
\* no key event has been handled yet.
EditInit ==
    /\ queue = <<>>
    /\ nextSeq = 0
    /\ lastRun = [kind |-> "none", seq |-> 0]
    /\ nextHandle = 0
    /\ respCount = [h \in 1 .. MaxMsgs |-> 0]
    /\ keyboard_client = Some(1)
    /\ input_action = "done"
    /\ editing_state \in EditingValues
    /\ engineCalls = <<>>
    /\ lastThread = "ui"
    /\ time = 0
    /\ timers = {}
    /\ tasks = <<>>
    /\ channel_rx = <<>>
    /\ local_timers = {}
    /\ runner_engine = None
    /\ nextBaton = 0
    /\ keyboard_modifiers \in ModifierStates
    /\ clipboard \in {None, Some(<<"a">>)}
    /\ outbox = <<>>
    /\ panicked = FALSE
    /\ CompositorInit
    /\ PlatformViewsInit
    /\ PointerInit
    /\ CodecIdle

\* the first key event after that, handled by either version of key_event
EditNext ==
    \/ \E ev \in KeyEvents : engineCalls = <<>> /\ Keyboard_key_event(ev)
    \/ \E ev \in KeyEvents : engineCalls = <<>> /\ key_event(ev)

EditSpec == EditInit /\ [][EditNext]_vars

\* No client has been attached and no modifier is held; the editing value is
\* one the framework has set, with a base an earlier Backspace may have
\* wrapped, and the clipboard is empty or holds a text; no key event has been
\* handled since.
ClientInit ==
    /\ queue = <<>>
    /\ nextSeq = 0
    /\ lastRun = [kind |-> "none", seq |-> 0]
    /\ nextHandle = 0
    /\ respCount = [h \in 1 .. MaxMsgs |-> 0]
    /\ keyboard_client = None
    /\ input_action = "unspecified"
    /\ editing_state \in [text : Texts,
                           selection_base : Offsets \cup {Some(UsizeMax)},
                           selection_extent : Offsets]
    /\ engineCalls = <<>>
    /\ lastThread = "ui"
    /\ time = 0
    /\ timers = {}
    /\ tasks = <<>>
    /\ channel_rx = <<>>
    /\ local_timers = {}
    /\ runner_engine = None
    /\ nextBaton = 0
    /\ keyboard_modifiers = [shift |-> FALSE, control |-> FALSE, super |-> FALSE]
    /\ clipboard \in {None, Some(<<"a">>)}
    /\ outbox = <<>>
    /\ panicked = FALSE
    /\ CompositorInit
    /\ PlatformViewsInit
    /\ PointerInit
    /\ CodecIdle

\* text-input messages and changes of the modifiers, then the first key event
\* that is forwarded to the engine, handled by either version of key_event
ClientNext ==
    \/ \E ti \in KeyPayloads :
          engineCalls = <<>> /\ Keyboard_handle_textinput_message(ti)
    \/ \E m \in ModifierStates : engineCalls = <<>> /\ modifiers_changed(m)
    \/ \E ev \in KeyEvents : engineCalls = <<>> /\ Keyboard_key_event(ev)
    \/ \E ev \in KeyEvents : engineCalls = <<>> /\ key_event(ev)

ClientSpec == ClientInit /\ [][ClientNext]_vars

---------------------------------------------------------------------------
\* Claims about single edits

\* a key-down (first press or repeat) of a named key that key_event forwards
KeyDown(ev, key) ==
    /\ ev.logical_key = key
    /\ ev.state = "Pressed"
    /\ IsSome(translate_physical_key(ev.physical_key))

\* the selection is collapsed at caret c, inside the text
CollapsedAt(es, c) ==
    /\ es.selection_base = Some(c)
    /\ es.selection_extent = Some(c)
    /\ c <= Len(es.text)

\* the text without its scalars at offsets start .. end - 1
without(t, start, end) == SubSeq(t, 1, start) \o SubSeq(t, end + 1, Len(t))

\* C13 as stated: a step of either key_event for a Backspace key-down taken
\* with the selection collapsed at a caret c > 0 removes the scalar at offset
\* c - 1 and leaves base = extent = c - 1.
C13_BackspaceCollapsed ==
    [][\A ev \in KeyEvents, c \in 1 .. MaxLen :
          (/\ KeyDown(ev, "Backspace")
           /\ CollapsedAt(editing_state, c)
           /\ Keyboard_key_event(ev) \/ key_event(ev))
          => /\ ~panicked'
             /\ editing_state' = [text |-> without(editing_state.text, c - 1, c),
                                  selection_base |-> Some(c - 1),
                                  selection_extent |-> Some(c - 1)]]_vars

\* the selection runs between the different offsets b and e, inside the text
SelectedBetween(es, b, e) ==
    /\ es.selection_base = Some(b)
    /\ es.selection_extent = Some(e)
    /\ b # e
    /\ Max(b, e) <= Len(es.text)

\* C14 as stated: a step of either key_event for a Delete or Backspace
\* key-down taken with a non-empty selection, in either direction, removes
\* the scalars at offsets min(base, extent) .. max(base, extent) - 1 and
\* leaves base = extent = min(base, extent).
C14_DeleteSelection ==
    [][\A ev \in KeyEvents, b, e \in 0 .. MaxLen :
          (/\ KeyDown(ev, "Delete") \/ KeyDown(ev, "Backspace")
           /\ SelectedBetween(editing_state, b, e)
           /\ Keyboard_key_event(ev) \/ key_event(ev))
          => /\ ~panicked'
             /\ editing_state' =
                   [text |-> without(editing_state.text, Min(b, e), Max(b, e)),
                    selection_base |-> Some(Min(b, e)),
                    selection_extent |-> Some(Min(b, e))]]_vars

HomeEvents == {ev \in KeyEvents : KeyDown(ev, "Home") \/ KeyDown(ev, "ArrowUp")}

\* C15: a step of either key_event for a Home or ArrowUp key-down taken with
\* the selection collapsed at c leaves the text alone and, with Shift held,
\* sets base to 0 and leaves the extent at c; without Shift it sets both to 0.
C15_HomeWithShift ==
    [][\A ev \in HomeEvents :
          (/\ selection_active(editing_state)
           /\ editing_state.selection_base = editing_state.selection_extent
           /\ Keyboard_key_event(ev) \/ key_event(ev))
          => /\ ~panicked'
             /\ editing_state' =
                   [editing_state EXCEPT
                       !.selection_base = Some(0),
                       !.selection_extent =
                           IF keyboard_modifiers.shift THEN @ ELSE Some(0)]
             /\ outbox' = update_editing_state(keyboard_client, editing_state')
       ]_vars

\* C15 witness: with Shift held and the client told, a two-scalar text has
\* base 0 and extent 2 after a key-down was forwarded to the engine.
C15_Witness ==
    /\ keyboard_modifiers = [shift |-> TRUE, control |-> FALSE, super |-> FALSE]
    /\ editing_state = [text |-> <<"a", "é">>, selection_base |-> Some(0),
                        selection_extent |-> Some(2)]
    /\ engineCalls = <<[call |-> "FlutterEngineSendKeyEvent",
                        arg |-> "kFlutterKeyEventTypeDown"]>>
    /\ outbox = update_editing_state(Some(1), editing_state)


---------------------------------------------------------------------------
\* Claims about the text input client

ClearClient == [method |-> "TextInput.clearClient"]

\* C16: processing TextInput.clearClient clears the keyboard client and
\* resets the editing value to its default (empty text, no selection), so a
\* value set before it is not seen by key events after the next setClient.
C16_ClearClientResets ==
    [][Keyboard_handle_textinput_message(ClearClient)
          => /\ keyboard_client' = None
             /\ editing_state' = TextEditingValue_default]_vars


---------------------------------------------------------------------------
\* Platform views (flutter_application/platform_views.rs)

\* views the generators may build before the model stops creating
MaxViews == 3

\* HashMap::insert and HashMap::remove, a map being a function on its keys
HashMap_insert(map, key, value) ==
    [k \in DOMAIN map \cup {key} |-> IF k = key THEN value ELSE map[k]]

HashMap_remove_all(map, key) == <<>>

HashMap_remove(map, key) == [k \in DOMAIN map \ {key} |-> map[k]]

HashMap_get_any(map, key) ==
    IF DOMAIN map = {} THEN None ELSE Some(map[CHOOSE k \in DOMAIN map : TRUE])

\* HashMap::get and HashMap::get_mut
HashMap_get(map, key) == IF key \in DOMAIN map THEN Some(map[key]) ELSE None

\* serde_json::to_vec(&Value::Array(vec![Value::Bool(b)])) as text
to_vec(b) == IF b THEN "[true]" ELSE "[false]"

\* Generators an embedder registers: one that always builds a view (the
\* closure main.rs registers for "test"), one that always refuses, and one
\* that builds a view only for a message that carries a size.
Generators == {"always", "never", "sized"}

\* the generator called with the view data; serial identifies the new Box
generator(g, view_data, serial) ==
    IF g = "always" \/ (g = "sized" /\ view_data.size # None)
    THEN Some([built_by |-> g, serial |-> serial])
    ELSE None

generate_unregistered(types, view_data, serial) ==
    generator("always", view_data, serial)

\* registered_view_types.get(&view_type).and_then(|generator| generator(&view_data))
generate(types, view_data, serial) ==
    LET found == HashMap_get(types, view_data.view_type)
    IN  IF found = None THEN None ELSE generator(found[1], view_data, serial)

\* the filter_map of render_platform_view: mutations of the four known
\* types are converted in order, any other is dropped
MutationTypes == {"Opacity", "ClipRect", "ClipRoundedRect", "Transformation"}

RECURSIVE convert_mutations(_)
convert_mutations(mutations) ==
    IF mutations = <<>> THEN <<>>
    ELSE (IF Head(mutations) \in MutationTypes THEN <<Head(mutations)>> ELSE <<>>)
         \o convert_mutations(Tail(mutations))

PlatformViewStep(call) ==
    /\ viewCall' = call
    /\ UNCHANGED <<bridgeVars, keyVars, compVars, codecVars, pointerVars>>

\* PlatformViewsHandler::register_platform_view_type
register_platform_view_type(view_type, g) ==
    /\ registered_view_types' = HashMap_insert(registered_view_types, view_type, g)
    /\ response' = None
    /\ rendered' = <<>>
    /\ logged' = <<>>
    /\ UNCHANGED <<views, nextView>>
    /\ PlatformViewStep([name |-> "register", view_type |-> view_type])

\* PlatformViewsHandler::unregister_platform_view_type
unregister_platform_view_type(view_type) ==
    /\ registered_view_types' = HashMap_remove(registered_view_types, view_type)
    /\ response' = None
    /\ rendered' = <<>>
    /\ logged' = <<>>
    /\ UNCHANGED <<views, nextView>>
    /\ PlatformViewStep([name |-> "unregister", view_type |-> view_type])

\* PlatformViewsHandler::handle_platform_views_message, the Create arm
Create(view_data) ==
    LET view == generate(registered_view_types, view_data, nextView + 1)
    IN  /\ view # None => nextView < MaxViews
        /\ IF view # None
           THEN /\ views' = HashMap_insert(views, view_data.id, <<view_data, view[1]>>)
                /\ nextView' = nextView + 1
                /\ response' = Some(to_vec(TRUE))
           ELSE /\ response' = Some(to_vec(FALSE))
                /\ UNCHANGED <<views, nextView>>
        /\ rendered' = <<>>
        /\ logged' = <<>>
        /\ UNCHANGED registered_view_types
        /\ PlatformViewStep([name |-> "create", view_data |-> view_data])

\* PlatformViewsHandler::handle_platform_views_message, the Dispose arm
Dispose(id) ==
    /\ views' = HashMap_remove(views, id)
    /\ response' = Some(to_vec(TRUE))
    /\ rendered' = <<>>
    /\ logged' = <<>>
    /\ UNCHANGED <<registered_view_types, nextView>>
    /\ PlatformViewStep([name |-> "dispose", id |-> id])

\* PlatformViewsHandler::render_platform_view: what it does to the handler
\* and to the view it finds
PlatformViewsHandler_render_platform_view(id, mutations) ==
    LET converted == convert_mutations(mutations)
        found == HashMap_get(views, id)
    IN  /\ IF found # None
           THEN /\ rendered' = << [view |-> found[1][2], mutations |-> converted] >>
                /\ logged' = <<>>
           ELSE /\ rendered' = <<>>
                /\ logged' = << [level |-> "error", id |-> id] >>
        /\ response' = None
        /\ UNCHANGED <<registered_view_types, views, nextView>>

\* a call of render_platform_view on its own
render_platform_view(id, mutations) ==
    /\ PlatformViewsHandler_render_platform_view(id, mutations)
    /\ PlatformViewStep([name |-> "render", id |-> id])

\* Inputs of the platform view specification: "test" is the type an
\* embedder registers, "web" is a type nobody registers
ViewTypes == {"test"}
ViewIds == {1, 2}
ViewSizes == {None, Some(<<100, 50>>)}
ViewDatas == [id : ViewIds, view_type : ViewTypes \cup {"web"}, size : ViewSizes]
MutationLists == { <<>>, <<"Opacity">>, <<"Unknown", "ClipRect">> }

PlatformViewNext ==
    \/ \E t \in ViewTypes, g \in Generators : register_platform_view_type(t, g)
    \/ \E t \in ViewTypes : unregister_platform_view_type(t)
    \/ \E view_data \in ViewDatas : Create(view_data)
    \/ \E id \in ViewIds : Dispose(id)
    \/ \E id \in ViewIds, ms \in MutationLists : render_platform_view(id, ms)

PlatformViewSpec == Init /\ [][PlatformViewNext]_vars


---------------------------------------------------------------------------
\* Claims about platform views

\* the step handled a create message carrying view_data
Created(view_data) ==
    viewCall' = [name |-> "create", view_data |-> view_data]

\* the generator registered for the message's type refuses to build a view
Refused(view_data) ==
    /\ view_data.view_type \in DOMAIN registered_view_types
    /\ generator(registered_view_types[view_data.view_type], view_data, 0) = None

\* C17: a create message whose type has no registered generator, or whose
\* generator returns no view, is answered with [false] and leaves the live
\* views and the registered types as they were; a create that succeeds is
\* answered with [true] and adds exactly the entry for its id.
C17_CreateResult ==
    [][\A view_data \in ViewDatas :
          Created(view_data) =>
             /\ registered_view_types' = registered_view_types
             /\ IF view_data.view_type \notin DOMAIN registered_view_types
                   \/ Refused(view_data)
                THEN /\ response' = Some("[false]")
                     /\ views' = views
                ELSE /\ response' = Some("[true]")
                     /\ DOMAIN views' = DOMAIN views \cup {view_data.id}
                     /\ views'[view_data.id][1] = view_data
                     /\ \A id \in DOMAIN views \ {view_data.id} :
                           views'[id] = views[id]]_vars

\* a refusing generator has just answered a create for an id while the
\* other id's view is live
C17_Witness ==
    /\ viewCall.name = "create"
    /\ viewCall.view_data = [id |-> 1, view_type |-> "test", size |-> None]
    /\ registered_view_types = [t \in {"test"} |-> "sized"]
    /\ response = Some("[false]")
    /\ DOMAIN views = {2}

\* C18: render for an id that has no live view calls no view's render,
\* changes nothing in the registry and does not panic.
C18_RenderUnknown ==
    [][\A id \in ViewIds :
          (/\ viewCall'.name = "render"
           /\ viewCall'.id = id
           /\ id \notin DOMAIN views)
          => /\ rendered' = <<>>
             /\ views' = views
             /\ registered_view_types' = registered_view_types
             /\ ~panicked']_vars

\* view 1 was created and disposed, view 2 is live, and view 1 was rendered
C18_Witness ==
    /\ viewCall = [name |-> "render", id |-> 1]
    /\ DOMAIN views = {2}
    /\ nextView = 2
    /\ views[2][2].serial = 1
    /\ logged # <<>>

\* C19: a dispose message removes the live view with its id if there is
\* one, leaves every other entry untouched, reports success whether or not
\* the id was present, and handling it a second time changes nothing more.
C19_Dispose ==
    [][\A id \in ViewIds :
          viewCall' = [name |-> "dispose", id |-> id]
          => /\ DOMAIN views' = DOMAIN views \ {id}
             /\ \A other \in DOMAIN views' : views'[other] = views[other]
             /\ response' = Some("[true]")
             /\ registered_view_types' = registered_view_types
             /\ HashMap_remove(views', id) = views']_vars

\* view 2 was built second and is gone, view 1 is live, and the dispose of
\* view 2 has just been handled
C19_Witness ==
    /\ viewCall = [name |-> "dispose", id |-> 2]
    /\ DOMAIN views = {1}
    /\ views[1][2].serial = 1
    /\ nextView = 2
    /\ response = Some("[true]")


---------------------------------------------------------------------------
\* Window metrics (FlutterApplication::metrics_changed, main.rs)

\* metrics_changed calls the model makes
MaxMetrics == 2

\* UI thread: FlutterApplication::metrics_changed.  The five values are moved
\* into a closure that is sent to the event loop; nothing is sent to the
\* engine before the closure runs.
metrics_changed(width, height, pixel_ratio, x, y) ==
    /\ nextSeq - nextBaton < MaxMetrics
    /\ nextSeq' = nextSeq + 1
    /\ queue' = send_event(queue, [kind |-> "metrics", seq |-> nextSeq + 1,
                                   width |-> width, height |-> height,
                                   pixel_ratio |-> pixel_ratio, x |-> x, y |-> y])
    /\ engineCalls' = <<>>
    /\ lastThread' = "ui"
    /\ UNCHANGED <<keyVars, compVars, codecVars, viewVars, pointerVars>>
    /\ UNCHANGED <<lastRun, nextHandle, respCount, keyboard_client, input_action,
                   editing_state, time, timers, tasks, channel_rx, local_timers,
                   runner_engine, nextBaton>>

\* What main's metrics_changed reads from the window: inner size, scale
\* factor of the monitor (1.0 without a monitor) and inner position ((0, 0)
\* when the platform has none), which is negative for a window that is
\* partly off screen.  A pixel ratio is written in tenths.
WindowMetrics ==
    { [width |-> 800, height |-> 600, pixel_ratio |-> 20, x |-> 10, y |-> 20],
      [width |-> 1, height |-> 1, pixel_ratio |-> 10, x |-> 0, y |-> 0],
      [width |-> 800, height |-> 600, pixel_ratio |-> 10, x |-> -5, y |-> 20],
      [width |-> 1024, height |-> 768, pixel_ratio |-> 15, x |-> 10, y |-> -1] }

MetricsNext ==
    \/ \E m \in WindowMetrics :
           metrics_changed(m.width, m.height, m.pixel_ratio, m.x, m.y)
    \/ vsync_callback
    \/ UserEvent

MetricsSpec == Init /\ [][MetricsNext]_vars

\* the event loop keeps delivering user events
MetricsFairSpec == MetricsSpec /\ WF_vars(UserEvent)


---------------------------------------------------------------------------
\* Claims about window metrics

IsMetricsEvent(e) == e.call = "FlutterEngineSendWindowMetricsEvent"

\* the send-window-metrics-event calls among the engine calls of a step
MetricsSent(calls) == SelectSeq(calls, IsMetricsEvent)

\* closure c of a metrics_changed call is waiting in the event queue
Waiting(c) == \E i \in 1 .. Len(queue) : queue[i] = c

MetricsClosures ==
    { [kind |-> "metrics", seq |-> n, width |-> m.width, height |-> m.height,
       pixel_ratio |-> m.pixel_ratio, x |-> m.x, y |-> m.y] :
      n \in 1 .. MaxMetrics + MaxVsync, m \in WindowMetrics }

\* C20: each metrics_changed(w, h, ratio, x, y) call with x >= 0 and y >= 0
\* results in exactly one send-window-metrics-event call, carrying width w,
\* height h, pixel ratio ratio, left x and top y.  The call itself queues
\* one closure and sends nothing; the step that runs the closure sends the
\* one event and takes the closure off the queue; no other step sends such
\* an event; and a queued closure is run.
C20_MetricsOnce ==
    /\ [][\A c \in MetricsClosures :
             /\ (~Waiting(c) /\ Waiting(c)')
                   => /\ MetricsSent(engineCalls') = <<>>
                      /\ queue' = Append(queue, c)
             /\ (lastRun' = c /\ lastRun # c /\ c.x >= 0 /\ c.y >= 0)
                   => /\ Waiting(c) /\ ~Waiting(c)'
                      /\ Len(MetricsSent(engineCalls')) = 1
                      /\ LET metrics == MetricsSent(engineCalls')[1].arg
                         IN  /\ metrics.width = c.width
                             /\ metrics.height = c.height
                             /\ metrics.pixel_ratio = c.pixel_ratio
                             /\ metrics.left = c.x
                             /\ metrics.top = c.y]_vars
    /\ [][(lastRun' = lastRun \/ lastRun'.kind # "metrics")
             => MetricsSent(engineCalls') = <<>>]_vars
    /\ \A c \in MetricsClosures : Waiting(c) ~> (lastRun = c)

\* 800x600 at ratio 2.0 and position (10, 20) was reported second, its
\* closure has just run and the engine has received the one event
C20_Witness ==
    /\ lastRun = [kind |-> "metrics", seq |-> 2, width |-> 800, height |-> 600,
                  pixel_ratio |-> 20, x |-> 10, y |-> 20]
    /\ Len(engineCalls) = 1
    /\ engineCalls[1].call = "FlutterEngineSendWindowMetricsEvent"
    /\ engineCalls[1].arg.width = 800
    /\ engineCalls[1].arg.height = 600
    /\ engineCalls[1].arg.pixel_ratio = 20
    /\ engineCalls[1].arg.left = 10
    /\ engineCalls[1].arg.top = 20
    /\ queue = <<>>

---------------------------------------------------------------------------
\* Claims about undecodable text-input payloads

\* the step ran the closure of a text-input message whose payload names none
\* of the methods of enum TextInput
RanUndecodable ==
    /\ lastRun' # lastRun
    /\ lastRun'.kind = "platform_message"
    /\ lastRun'.channel = Some(FLUTTER_TEXTINPUT_CHANNEL)
    /\ lastRun'.data.method \notin TextInputMethods

\* C21: a text-input payload that cannot be decoded leaves the keyboard
\* client and the editing value unchanged, is answered with one empty
\* response on its handle, and does not end the process.
C21_UndecodableIgnored ==
    [][RanUndecodable
          => /\ keyboard_client' = keyboard_client
             /\ input_action' = input_action
             /\ editing_state' = editing_state
             /\ engineCalls' = <<Response(lastRun'.response_handle)>>
             /\ respCount'[lastRun'.response_handle] = 1
             /\ ~panicked']_vars

\* a client was attached by the first message, the second message could not
\* be decoded and has been answered
C21_Witness ==
    /\ lastRun.kind = "platform_message"
    /\ lastRun.channel = Some(FLUTTER_TEXTINPUT_CHANNEL)
    /\ lastRun.data.method = "{not json"
    /\ lastRun.response_handle = 2
    /\ keyboard_client = Some(1)
    /\ input_action = "done"
    /\ engineCalls = <<Response(2)>>

---------------------------------------------------------------------------
\* Claims about posted tasks running

\* timers are polled and fire, the clock advances, and the event loop and
\* the runner thread keep consuming
TaskFairSpec ==
    /\ TaskSpec
    /\ WF_vars(\E tm \in timers : TimerStart(tm))
    /\ WF_vars(\E tm \in timers : TimerFire(tm))
    /\ WF_vars(Tick)
    /\ WF_vars(UserEvent)
    /\ WF_vars(TaskRunner_run)
    /\ WF_vars(TaskRunner_recv)
    /\ WF_vars(\E lt \in local_timers : TaskRunner_timer(lt))

Posted(i) == Len(tasks) >= i

\* C22: every task posted through either post_task_callback is eventually
\* passed to FlutterEngineRunTask, and no task is passed to it twice.
C22_EveryTaskRunsOnce ==
    /\ [](\A i \in 1 .. Len(tasks) : tasks[i].runs <= 1)
    /\ \A i \in 1 .. MaxTasks : Posted(i) ~> (Posted(i) /\ tasks[i].runs = 1)

---------------------------------------------------------------------------
\* Claims about the messages a key event sends

IsUpdate(m) == m.method = "TextInputClient.updateEditingState"
IsAction(m) == m.method = "TextInputClient.performAction"

---------------------------------------------------------------------------
\* Claims about caret movement

\* base b and extent e are both set and inside the text
SelectionAt(es, b, e) ==
    /\ es.selection_base = Some(b)
    /\ es.selection_extent = Some(e)
    /\ Max(b, e) <= Len(es.text)

Clamp(n, lo, hi) == Max(lo, Min(n, hi))

\* C24 as stated: ArrowLeft or ArrowRight without Shift on a non-empty
\* selection collapses it to its near edge (ArrowLeft to min(base, extent),
\* ArrowRight to max(base, extent)); with Shift held the key moves only the
\* extent, by one scalar, clamped to [0, text length], and leaves the base.
C24_ArrowKeys ==
    [][\A ev \in KeyEvents, b, e \in 0 .. MaxLen :
          (/\ KeyDown(ev, "ArrowLeft") \/ KeyDown(ev, "ArrowRight")
           /\ SelectionAt(editing_state, b, e)
           /\ Keyboard_key_event(ev) \/ key_event(ev))
          => LET left == ev.logical_key = "ArrowLeft"
                 len == Len(editing_state.text)
             IN  /\ ~panicked'
                 /\ editing_state'.text = editing_state.text
                 /\ (~keyboard_modifiers.shift /\ b # e)
                       => LET edge == IF left THEN Min(b, e) ELSE Max(b, e)
                          IN  /\ editing_state'.selection_base = Some(edge)
                              /\ editing_state'.selection_extent = Some(edge)
                 /\ keyboard_modifiers.shift
                       => /\ editing_state'.selection_base = Some(b)
                          /\ editing_state'.selection_extent =
                                Some(Clamp(IF left THEN e - 1 ELSE e + 1, 0, len))]_vars

MoveEvents ==
    {ev \in KeyEvents : \E key \in {"Home", "ArrowUp", "End", "ArrowDown"} :
                            KeyDown(ev, key)}

\* C25 as stated: with Shift held, Home and ArrowUp move only the extent, to
\* 0, and End and ArrowDown move only the extent, to the text length; the
\* base keeps its value.
C25_ShiftMovesExtent ==
    [][\A ev \in MoveEvents, b, e \in 0 .. MaxLen :
          (/\ keyboard_modifiers.shift
           /\ SelectionAt(editing_state, b, e)
           /\ Keyboard_key_event(ev) \/ key_event(ev))
          => /\ ~panicked'
             /\ editing_state'.text = editing_state.text
             /\ editing_state'.selection_base = Some(b)
             /\ editing_state'.selection_extent =
                   IF ev.logical_key \in {"Home", "ArrowUp"} THEN Some(0)
                   ELSE Some(Len(editing_state.text))]_vars

---------------------------------------------------------------------------
\* Claims about offsets in texts with multi-byte scalars

MultiByte(t) == \E i \in 1 .. Len(t) : len_utf8(t[i]) > 1

\* the text with the scalars at offsets start .. end - 1 replaced by s
replaced(t, start, end, s) == SubSeq(t, 1, start) \o s \o SubSeq(t, end + 1, Len(t))

\* what an edit at scalar offsets b and e makes of text t
ScalarEdit(key, t, b, e, clip) ==
    LET lo == Min(b, e)
        hi == Max(b, e)
    IN  CASE key = "v" -> IF IsSome(clip) THEN replaced(t, lo, hi, Unwrap(clip)) ELSE t
          [] b # e -> replaced(t, lo, hi, <<>>)
          [] key = "Backspace" -> IF b > 0 THEN replaced(t, b - 1, b, <<>>) ELSE t
          [] key = "Delete" -> IF b < Len(t) THEN replaced(t, b, b + 1, <<>>) ELSE t
          [] OTHER -> t

\* Backspace, Delete, and cut and paste with the action key
EditEvents ==
    {ev \in KeyEvents :
        \/ KeyDown(ev, "Backspace") \/ KeyDown(ev, "Delete")
        \/ (KeyDown(ev, "x") \/ KeyDown(ev, "v")) /\ action_key(keyboard_modifiers)}

\* C26 as stated: in a text with multi-byte characters, Backspace, Delete,
\* range deletion, cut and insertion at scalar offsets change exactly the
\* scalars at those offsets, and never fail.
C26_ScalarOffsets ==
    [][\A ev \in EditEvents, b, e \in 0 .. MaxLen :
          (/\ MultiByte(editing_state.text)
           /\ SelectionAt(editing_state, b, e)
           /\ Keyboard_key_event(ev))
          => /\ ~panicked'
             /\ editing_state'.text =
                   ScalarEdit(ev.logical_key, editing_state.text, b, e, clipboard)]_vars

---------------------------------------------------------------------------
\* Claims about Tab and Enter

ActionEvents == {ev \in KeyEvents : KeyDown(ev, "Tab") \/ KeyDown(ev, "Enter")}

\* the one performAction message a Tab or Enter key-down is to send
ExpectedAction(ev) ==
    <<[method |-> "TextInputClient.performAction",
       client |-> Unwrap(keyboard_client),
       action |-> IF ev.logical_key = "Enter" THEN input_action
                  ELSE IF keyboard_modifiers.shift THEN "previous" ELSE "next"]>>

\* C27 as stated: while a client is attached, a Tab key-down sends
\* performAction with Next, Shift+Tab with Previous, and Enter with the
\* action stored by the last setClient; none changes text or selection.
C27_ActionKeys ==
    [][\A ev \in ActionEvents :
          (IsSome(keyboard_client) /\ Keyboard_key_event(ev))
          => /\ SelectSeq(outbox', IsAction) = ExpectedAction(ev)
             /\ editing_state' = editing_state]_vars

\* C27, amended: the same, for a key-down that arrives while the editing
\* value has an active selection (base and extent both set); without one the
\* key-down sends nothing.
C27_ActionKeysWithSelection ==
    [][\A ev \in ActionEvents :
          (IsSome(keyboard_client) /\ Keyboard_key_event(ev))
          => /\ SelectSeq(outbox', IsAction) =
                   IF selection_active(editing_state) THEN ExpectedAction(ev)
                   ELSE <<>>
             /\ editing_state' = editing_state]_vars

\* Shift+Tab was pressed in a text with a selection: performAction with
\* Previous was sent, followed by the unchanged editing value
C27_Witness ==
    /\ keyboard_modifiers = [shift |-> TRUE, control |-> FALSE, super |-> FALSE]
    /\ Len(outbox) = 2
    /\ outbox[1] = [method |-> "TextInputClient.performAction", client |-> 1,
                    action |-> "previous"]
    /\ outbox[2].method = "TextInputClient.updateEditingState"
    /\ outbox[2].value = editing_state
    /\ editing_state = [text |-> <<"a", "é">>, selection_base |-> Some(0),
                        selection_extent |-> Some(1)]

---------------------------------------------------------------------------
\* Claims about paste and typed text

PasteEvents == {ev \in KeyEvents : KeyDown(ev, "v")}

\* text s put in place of the selection b .. e of es, the caret after it
Inserted(es, b, e, s) ==
    [text |-> replaced(es.text, Min(b, e), Max(b, e), s),
     selection_base |-> Some(Min(b, e) + Len(s)),
     selection_extent |-> Some(Min(b, e) + Len(s))]

\* C28 as stated: on action key + v, a failing clipboard read leaves text
\* and selection unchanged and raises nothing; a read that yields s puts s
\* in place of the selected range and collapses the selection after it.
C28_Paste ==
    [][\A ev \in PasteEvents, b, e \in 0 .. MaxLen :
          (/\ action_key(keyboard_modifiers)
           /\ SelectionAt(editing_state, b, e)
           /\ Keyboard_key_event(ev) \/ key_event(ev))
          => /\ ~panicked'
             /\ editing_state' =
                   IF clipboard = None THEN editing_state
                   ELSE Inserted(editing_state, b, e, Unwrap(clipboard))]_vars

\* key-downs that carry text
TextEvents == {ev \in KeyEvents : KeyDown(ev, ev.logical_key) /\ IsSome(ev.text)}

\* the key is one of the accelerators of the action key
Accelerator(ev) ==
    action_key(keyboard_modifiers) /\ ev.logical_key \in {"a", "x", "c", "v"}

\* C29 as stated: a key-down that carries text and matches no other binding,
\* with neither Control nor Super held, inserts the text in place of the
\* selection and leaves the caret after it; with Control or Super held and
\* no binding, text and selection are unchanged.
C29_TypedText ==
    [][\A ev \in TextEvents, b, e \in 0 .. MaxLen :
          (/\ ~Accelerator(ev)
           /\ SelectionAt(editing_state, b, e)
           /\ Keyboard_key_event(ev) \/ key_event(ev))
          => /\ ~panicked'
             /\ editing_state' =
                   IF keyboard_modifiers.control \/ keyboard_modifiers.super
                   THEN editing_state
                   ELSE Inserted(editing_state, b, e, Unwrap(ev.text))]_vars

---------------------------------------------------------------------------
\* Claims about forwarding key events

IsKeyEvent(call) == call.call = "FlutterEngineSendKeyEvent"

Translates(ev) ==
    /\ IsSome(translate_logical_key(ev.logical_key))
    /\ IsSome(translate_physical_key(ev.physical_key))

\* C30 as stated: a key event is sent to the engine exactly when both its
\* logical and its physical key translate; an event with a key that does
\* not translate is dropped without error, changes neither text nor
\* selection and sends no text-input message; a key-up never changes text
\* or selection and never sends a text-input message.
C30_KeyForwarding ==
    [][\A ev \in KeyEvents :
          (Keyboard_key_event(ev) \/ key_event(ev))
          => /\ (SelectSeq(engineCalls', IsKeyEvent) # <<>>) <=> Translates(ev)
             /\ (~Translates(ev) \/ ev.state = "Released")
                   => /\ ~panicked'
                      /\ editing_state' = editing_state
                      /\ outbox' = <<>>]_vars

---------------------------------------------------------------------------
\* A present call step by step, with the UI thread running beside it
\* (flutter_application/compositor.rs, compositor.rs)
\*
\* present_layers_callback runs on the engine's render thread.  The window's
\* event handlers, the platform-message handlers that create and dispose of
\* platform views and the registration of view types run on the UI thread.

\* the variables a step of a present call leaves alone: it calls no engine
\* entry point and sends no text-input message
PresentFrame ==
    /\ engineCalls' = <<>>
    /\ outbox' = <<>>
    /\ lastThread' = "render"
    /\ lastCallback' = [name |-> "present_layers_callback", handle |-> 0]
    /\ UNCHANGED <<queue, nextSeq, lastRun, nextHandle, respCount, keyboard_client,
                   input_action, editing_state, time, timers, tasks, channel_rx,
                   local_timers, runner_engine, nextBaton, keyboard_modifiers,
                   clipboard, panicked>>
    /\ UNCHANGED <<records, held, viewport_size, resizing>>
    /\ UNCHANGED <<codecVars, pointerVars>>

present_begin_stale(layers) ==
    /\ ~panicked
    /\ present.pc = "idle"
    /\ LET size == viewport_size
           changed == size # previous_viewport_size
       IN  /\ surface_size' = IF changed THEN size ELSE surface_size
           /\ UNCHANGED previous_viewport_size
           /\ present' = [pc |-> "lock", layers |-> layers, idx |-> 0,
                          viewport_size |-> size, uniforms |-> <<>>,
                          ops |-> (IF changed THEN <<"configure">> ELSE <<>>)
                                  \o <<"get_current_texture",
                                       "create_command_encoder",
                                       "begin_render_pass", "set_pipeline">>,
                          commands |-> <<>>]
    /\ frame' = NoFrame
    /\ UNCHANGED <<handler_lock, viewVars>>
    /\ PresentFrame

\* present_layers_callback up to set_pipeline: reads viewport_size, configures
\* the surface and records the size when it differs from
\* previous_viewport_size, acquires the frame and begins the render pass
present_begin(layers) ==
    /\ ~panicked
    /\ present.pc = "idle"
    /\ LET size == viewport_size
           changed == size # previous_viewport_size
       IN  /\ surface_size' = IF changed THEN size ELSE surface_size
           /\ previous_viewport_size' = IF changed THEN size
                                        ELSE previous_viewport_size
           /\ present' = [pc |-> "lock", layers |-> layers, idx |-> 0,
                          viewport_size |-> size, uniforms |-> <<>>,
                          ops |-> (IF changed THEN <<"configure">> ELSE <<>>)
                                  \o <<"get_current_texture",
                                       "create_command_encoder",
                                       "begin_render_pass", "set_pipeline">>,
                          commands |-> <<>>]
    /\ frame' = NoFrame
    /\ UNCHANGED <<handler_lock, viewVars>>
    /\ PresentFrame

present_lock_free ==
    /\ present.pc = "lock"
    /\ UNCHANGED handler_lock
    /\ present' = [present EXCEPT
                      !.pc = "layers",
                      !.idx = 1,
                      !.uniforms = uniform_buffers(present.layers, viewport_size),
                      !.ops = @ \o <<"lock">>]
    /\ UNCHANGED <<frame, previous_viewport_size, surface_size, viewVars>>
    /\ PresentFrame

\* platform_views_handler.lock().unwrap() waits for the mutex; then
\* viewport_size is read again and the uniform_buffers vector is built
present_lock ==
    /\ present.pc = "lock"
    /\ handler_lock = "none"
    /\ handler_lock' = "render"
    /\ present' = [present EXCEPT
                      !.pc = "layers",
                      !.idx = 1,
                      !.uniforms = uniform_buffers(present.layers, viewport_size),
                      !.ops = @ \o <<"lock">>]
    /\ UNCHANGED <<frame, previous_viewport_size, surface_size, viewVars>>
    /\ PresentFrame

\* one turn of the layer loop
present_layer ==
    /\ present.pc = "layers"
    /\ present.idx <= Len(present.layers)
    /\ LET idx == present.idx
           layer == present.layers[idx]
       IN  /\ present' = [present EXCEPT
                             !.idx = idx + 1,
                             !.commands = @ \o layer_commands(
                                 SubSeq(present.layers, 1, idx), idx,
                                 present.uniforms)]
           /\ IF layer.type = "PlatformView"
              THEN /\ PlatformViewsHandler_render_platform_view(layer.id,
                                                                layer.mutations)
                   /\ viewCall' = [name |-> "render", id |-> layer.id]
              ELSE UNCHANGED viewVars
    /\ UNCHANGED <<frame, handler_lock, previous_viewport_size, surface_size>>
    /\ PresentFrame

\* the end of the block drops the MutexGuard; the encoder is submitted and
\* the frame presented
present_end ==
    /\ present.pc = "layers"
    /\ present.idx > Len(present.layers)
    /\ handler_lock' = "none"
    /\ present' = NoPresent
    /\ frame' = [passes |-> 1, commands |-> present.commands,
                 layers |-> present.layers, submitted |-> TRUE,
                 presented |-> TRUE]
    /\ UNCHANGED <<previous_viewport_size, surface_size, viewVars>>
    /\ PresentFrame

\* the variables a step of the UI thread at the window leaves alone
WindowFrame ==
    /\ engineCalls' = <<>>
    /\ outbox' = <<>>
    /\ lastThread' = "ui"
    /\ UNCHANGED <<queue, nextSeq, lastRun, nextHandle, respCount, keyboard_client,
                   input_action, editing_state, time, timers, tasks, channel_rx,
                   local_timers, runner_engine, nextBaton, keyboard_modifiers,
                   clipboard, panicked>>
    /\ UNCHANGED <<records, held, frame, lastCallback, previous_viewport_size,
                   surface_size, present, handler_lock>>
    /\ UNCHANGED <<codecVars, viewVars, pointerVars>>

\* UI thread: viewport_size.set((width, height)) on a window resize.  The
\* Cell is written without synchronisation while the render thread reads it:
\* the store is either one write of both fields or a write of the width
\* followed by a write of the height.
viewport_size_set(size) ==
    /\ ~panicked
    /\ resizing = None
    /\ size # viewport_size
    /\ \/ /\ viewport_size' = size
          /\ UNCHANGED resizing
       \/ /\ viewport_size' = <<size[1], viewport_size[2]>>
          /\ resizing' = Some(size)
    /\ WindowFrame

\* the second half of a store made in two writes
viewport_size_set_height ==
    /\ resizing # None
    /\ viewport_size' = resizing[1]
    /\ resizing' = None
    /\ WindowFrame

\* UI thread: a method of the handler is called through
\* platform_views_handler.lock(), which waits while the render thread holds
\* the guard; the guard is dropped when the method has returned
locked(method) ==
    /\ ~panicked
    /\ handler_lock = "none"
    /\ method

\* Compositor::present_layers_callback of compositor.rs: the commands of the
\* layer loop up to the first platform-view layer, whose arm is todo!()
RECURSIVE copy_commands(_, _)
copy_commands(layers, idx) ==
    IF idx > Len(layers) \/ layers[idx].type = "PlatformView" THEN <<>>
    ELSE <<Command("copy_texture_to_texture", layers[idx], idx,
                   <<layers[idx].offset, layers[idx].size>>)>>
         \o copy_commands(layers, idx + 1)

\* Compositor::present_layers_callback of compositor.rs: acquires the frame,
\* clears it, copies every backing-store layer into it, submits and presents
compositor_rs_present_layers_callback(layers) ==
    LET todo == \E i \in 1 .. Len(layers) : layers[i].type = "PlatformView"
    IN  /\ ~panicked
        /\ present.pc = "idle"
        /\ frame' = [passes |-> 0, commands |-> copy_commands(layers, 1),
                     layers |-> layers, submitted |-> ~todo, presented |-> ~todo]
        /\ panicked' = todo
        /\ engineCalls' = <<>>
        /\ outbox' = <<>>
        /\ lastThread' = "render"
        /\ lastCallback' = [name |-> "present_layers_callback", handle |-> 0]
        /\ UNCHANGED <<queue, nextSeq, lastRun, nextHandle, respCount,
                       keyboard_client, input_action, editing_state, time, timers,
                       tasks, channel_rx, local_timers, runner_engine, nextBaton,
                       keyboard_modifiers, clipboard>>
        /\ UNCHANGED <<records, held, viewport_size, previous_viewport_size,
                       surface_size, present, handler_lock, resizing>>
        /\ UNCHANGED <<codecVars, viewVars, pointerVars>>

\* Inputs of the present specification: window sizes, the view the embedder
\* of main.rs can create, and layers with offsets, sizes and mutations
ViewportSizes == {<<800, 600>>, <<1024, 768>>}
PresentViewDatas == {[id |-> 1, view_type |-> "test", size |-> None]}
LayerMutations == { <<"Opacity">>,
                    <<"Transformation", "Unknown", "ClipRect", "ClipRoundedRect">> }

PresentLayers(stores) ==
    {Layer("BackingStore", h, 0, <<0, 0>>, <<800, 600>>, <<>>) : h \in stores}
    \cup {Layer("PlatformView", 0, id, <<10, 20>>, <<100, 50>>, ms) :
             id \in {1}, ms \in LayerMutations}

\* the layer lists of up to two layers
PresentLayerLists(stores) ==
    UNION {[1 .. n -> PresentLayers(stores)] : n \in 0 .. 2}

PresentNext ==
    \/ \E h \in {1} : create_backing_store_callback(h)
    \/ \E layers \in PresentLayerLists(held) : present_begin(layers)
    \/ present_lock
    \/ present_layer
    \/ present_end
    \/ \E size \in ViewportSizes : viewport_size_set(size)
    \/ viewport_size_set_height
    \/ locked(register_platform_view_type("test", "always"))
    \/ \E view_data \in PresentViewDatas : locked(Create(view_data))
    \/ \E id \in {1} : locked(Dispose(id))
    \/ \E layers \in PresentLayerLists(held) :
           compositor_rs_present_layers_callback(layers)

PresentSpec == Init /\ [][PresentNext]_vars

---------------------------------------------------------------------------
\* Claims about the surface size

\* the step is the start of a present call
Began == present.pc = "idle" /\ present'.pc = "lock"

\* the step is the end of a present call
Ended == present.pc = "layers" /\ present'.pc = "idle"

\* the places of an operation in a sequence of operations
Places(ops, name) == {i \in 1 .. Len(ops) : ops[i] = name}

\* C31: a present call configures the surface if and only if the viewport
\* size it reads at its start differs from the last-seen size; it does so
\* with the size it read and before it acquires the frame, and records that
\* size as last-seen.  When the call ends the last-seen size is the size the
\* call read, and no other step of the call configures the surface.
C31_ReconfigureOnChange ==
    [][/\ Began =>
            LET size == present'.viewport_size
                ops == present'.ops
            IN  /\ size = viewport_size
                /\ (Places(ops, "configure") # {})
                      <=> (size # previous_viewport_size)
                /\ \A c \in Places(ops, "configure") :
                      /\ \A g \in Places(ops, "get_current_texture") : c < g
                      /\ surface_size' = size
                /\ Places(ops, "configure") = {} => surface_size' = surface_size
                /\ Places(ops, "get_current_texture") # {}
                /\ previous_viewport_size' = size
       /\ Ended => previous_viewport_size' = present.viewport_size
       /\ ~Began => /\ surface_size' = surface_size
                    /\ previous_viewport_size' = previous_viewport_size]_vars

\* C31 witness: the window was resized, a present call has configured the
\* surface with the new size and is past its first layer; the window has
\* since been resized back.
C31_Witness ==
    /\ present.pc = "layers"
    /\ present.idx = 2
    /\ present.ops[1] = "configure"
    /\ present.viewport_size = <<1024, 768>>
    /\ surface_size = <<1024, 768>>
    /\ previous_viewport_size = <<1024, 768>>
    /\ viewport_size = <<800, 600>>

---------------------------------------------------------------------------
\* Claims about platform-view layers

\* the commands a present issued for layer i
CommandsOf(commands, i) ==
    LET Mine(c) == c.layer = i
    IN  SelectSeq(commands, Mine)

\* layer i was handed to the registry with its id, offset, size and
\* mutations, and nothing else was issued for it
Forwarded(layers, commands, i) ==
    CommandsOf(commands, i)
        = << Command("render_platform_view", layers[i], i,
                     <<layers[i].id, layers[i].offset, layers[i].size,
                       layers[i].mutations>>) >>

\* the opacity, clip-rect, rounded-clip-rect and transformation mutations of
\* a list, in the order of the list
CarriedOver(mutations) ==
    LET Known(m) == m \in {"Opacity", "ClipRect", "ClipRoundedRect",
                           "Transformation"}
    IN  SelectSeq(mutations, Known)

\* C32: a present issues for a platform-view layer no draw call but one call
\* of the registry's render with the layer's id, offset, size and mutation
\* list; a live view is rendered with the opacity, clip-rect,
\* rounded-clip-rect and transformation mutations of the layer in the
\* layer's order; the call goes on with the following layers and completes.
C32_PlatformViewLayers ==
    [][/\ lastCallback'.name = "present_layers_callback" => ~panicked'
       /\ \A i \in 1 .. Len(present.layers) :
             (/\ present.pc = "layers"
              /\ present.idx = i
              /\ present'.idx = i + 1
              /\ present.layers[i].type = "PlatformView")
             => LET layer == present.layers[i]
                IN  /\ present'.pc = "layers"
                    /\ Forwarded(present.layers, present'.commands, i)
                    /\ layer.id \in DOMAIN views
                          => rendered' = << [view |-> views[layer.id][2],
                                             mutations |->
                                                 CarriedOver(layer.mutations)] >>
       /\ (frame' # frame /\ frame' # NoFrame)
             => /\ frame'.presented
                /\ \A i \in 1 .. Len(frame'.layers) :
                      frame'.layers[i].type = "PlatformView"
                         => Forwarded(frame'.layers, frame'.commands, i)]_vars

---------------------------------------------------------------------------
\* Claims about the registry lock during a present

\* C37: the render thread holds the platform_views_handler mutex exactly
\* while a present call is in its layer loop: it holds it before the first
\* layer is processed and until the last one has been, and not before the
\* loop or after the call.  No step taken while the call is between its first
\* and its last layer creates or disposes of a view or changes the
\* registered types, and a call that ends has released the mutex.
C37_LockAcrossLayers ==
    [][/\ (present'.pc = "layers") <=> (handler_lock' = "render")
       /\ (present.pc = "layers" /\ present'.pc = "layers")
             => /\ views' = views
                /\ registered_view_types' = registered_view_types
       /\ Ended => handler_lock' = "none"]_vars

\* C37 witness: a present of two platform-view layers of view 1 found the
\* view live at its first layer; it holds the mutex before its second layer
\* while the view is still live.
C37_Witness ==
    /\ present.pc = "layers"
    /\ present.idx = 2
    /\ Len(present.layers) = 2
    /\ present.layers[1].type = "PlatformView"
    /\ present.layers[2].type = "PlatformView"
    /\ handler_lock = "render"
    /\ 1 \in DOMAIN views
    /\ rendered # <<>>

---------------------------------------------------------------------------
\* Claims about the viewport size within one present

\* the viewport sizes written into the uniforms of the backing-store layers
UniformViewports(commands) ==
    {commands[k].arg[2] : k \in {j \in 1 .. Len(commands) :
                                    commands[j].op = "write_buffer"}}

\* C38: the viewport size a present call writes into the uniform of each of
\* its backing-store layers is the size the same call compared with the
\* last-seen size and configured the surface with.
C38_OneViewportPerPresent ==
    [][Ended => \A size \in UniformViewports(present.commands) :
                    /\ size = present.viewport_size
                    /\ size = previous_viewport_size]_vars

---------------------------------------------------------------------------
\* Claims about the cursor of a decode

\* the type tags of the numeric arrays
ArrayTags == {9, 10, 11, 14}

\* a buffer that is one numeric array of zero elements with nothing after
\* its size prefix
EmptyArrayAtEnd(b) == Len(b) = 2 /\ b[1] \in ArrayTags /\ b[2] = 0

\* C34: the cursor a decode ends with lies within the buffer, also when the
\* last thing the decode did was to skip the alignment padding of a numeric
\* array, and a buffer that is a numeric array of zero elements with no byte
\* after its size prefix is accepted.
C34_CursorInBuffer ==
    result # Pending =>
        /\ 0 <= result.pos
        /\ result.pos <= Len(input)
        /\ EmptyArrayAtEnd(input) => result.status = "Ok"

---------------------------------------------------------------------------
\* Claims about the sleep of a delayed task

\* C35: the sleep of a delayed task is never negative: when the timer task
\* spawned by post_task_callback starts, the clock it reads has not passed
\* the target time, and the sleep the TaskRunner loop computes from its one
\* clock reading is not negative either.
C35_SleepNotNegative ==
    [][/\ \A tm \in timers :
             (tm.st = "spawned" /\ tm \notin timers') => tm.target - time >= 0
       /\ \A lt \in local_timers' \ local_timers : lt.wake - time >= 0]_vars

---------------------------------------------------------------------------
\* Claims about the order in which TaskRunner runs tasks

\* the tasks posted to the TaskRunner
RunnerTasks == {i \in 1 .. Len(tasks) : tasks[i].runner = "task_runner"}

\* the step receives task i from the channel
Received(i) ==
    /\ i \in RunnerTasks
    /\ tasks[i].checked = -1
    /\ tasks'[i].checked # -1

\* C36: the receive loop takes the tasks in posting order and can take the
\* next one whenever one is waiting, whatever timers are pending; a task
\* whose target time has been reached when it is received is run in the step
\* that receives it, also while the timer of a task posted earlier is still
\* pending; so of two tasks that are due when they are received the one
\* posted first is run first.
C36_FutureTaskDoesNotBlock ==
    /\ [](\A i, j \in RunnerTasks :
             (i < j /\ tasks[j].checked # -1)
             => /\ tasks[i].checked # -1
                /\ (tasks[i].path = "direct" /\ tasks[j].path = "direct")
                      => /\ tasks[i].runs = 1
                         /\ tasks[i].ran <= tasks[j].ran)
    /\ []((IsSome(runner_engine) /\ channel_rx # <<>>) => ENABLED TaskRunner_recv)
    /\ [][\A j \in 1 .. MaxTasks :
             (Received(j) /\ time >= tasks[j].target)
             => /\ tasks'[j].runs = 1
                /\ tasks'[j].ran = time
                /\ engineCalls'[Len(engineCalls')] = RunTaskCall(j)
                /\ local_timers' = local_timers]_vars

\* C36 witness: task 1 was posted with a target in the future and its timer
\* is pending; task 2, posted after it and already due, has been run.
C36_Witness ==
    /\ Len(tasks) = 2
    /\ RunnerTasks = {1, 2}
    /\ tasks[1].path = "timer"
    /\ tasks[1].runs = 0
    /\ \E lt \in local_timers : lt.task = 1 /\ lt.wake > time
    /\ tasks[2].path = "direct"
    /\ tasks[2].runs = 1

---------------------------------------------------------------------------
\* Claims about the range of the offsets

\* both offsets are set and lie in the text, counted in scalars
WithinText(es) ==
    \A o \in {es.selection_base, es.selection_extent} :
        IsSome(o) /\ 0 <= Unwrap(o) /\ Unwrap(o) <= Len(es.text)

\* C33: a key event handled with an editing value whose offsets lie in the
\* text, base and extent in either order, leaves an editing value whose
\* offsets lie in the text as it is after the event.
C33_OffsetsStayInText ==
    [][\A ev \in KeyEvents :
          (/\ Keyboard_key_event(ev) \/ key_event(ev)
           /\ WithinText(editing_state))
          => WithinText(editing_state')]_vars

---------------------------------------------------------------------------
\* Pointer devices (flutter_application.rs get_mouse ... send_pointer_event)
\*
\* held_buttons is a bit mask; the model follows the bits of the left, right
\* and middle button.

\* virtual ids get_mouse may hand out before the model stops adding mice
MaxMice == 3
\* pointer events the handlers may send before the model stops
MaxPointerEvents == 4

\* bit k of n
Bit(n, k) == (n \div (2 ^ k)) % 2

\* a ^ b and a & !b on the three bits
bitxor(a, b) ==
    ((Bit(a, 0) + Bit(b, 0)) % 2) + 2 * ((Bit(a, 1) + Bit(b, 1)) % 2)
        + 4 * ((Bit(a, 2) + Bit(b, 2)) % 2)

bitandnot(a, b) ==
    Bit(a, 0) * (1 - Bit(b, 0)) + 2 * Bit(a, 1) * (1 - Bit(b, 1))
        + 4 * Bit(a, 2) * (1 - Bit(b, 2))

\* the match on MouseButton in mouse_buttons
button_idx(button) ==
    CASE button = "Left" -> 1
      [] button = "Right" -> 2
      [] OTHER -> 4

PointerState(virtual_id, position, held_buttons) ==
    [virtual_id |-> virtual_id, position |-> position,
     held_buttons |-> held_buttons]

\* send_pointer_event: the events it sends to the event loop, none for a
\* mouse that is not in mice.  The mouse is kept with the event.
send_pointer_event(ms, device_id, phase) ==
    IF device_id \in DOMAIN ms
    THEN << [phase |-> phase, device |-> ms[device_id].virtual_id,
             x |-> ms[device_id].position[1], y |-> ms[device_id].position[2],
             buttons |-> ms[device_id].held_buttons, mouse |-> device_id] >>
    ELSE <<>>

get_mouse_reused(ms, cur, device_id) ==
    IF device_id \notin DOMAIN ms
    THEN LET inserted == HashMap_insert(ms, device_id,
                                        PointerState(0, <<0, 0>>, 0))
         IN  [mice |-> inserted, current_mouse_id |-> cur + 1,
              sent |-> send_pointer_event(inserted, device_id, "kAdd")]
    ELSE [mice |-> ms, current_mouse_id |-> cur, sent |-> <<>>]

\* get_mouse: a mouse that is not in mice is inserted with the next virtual
\* id and an Add is sent for it
get_mouse(ms, cur, device_id) ==
    IF device_id \notin DOMAIN ms
    THEN LET inserted == HashMap_insert(ms, device_id,
                                        PointerState(cur, <<0, 0>>, 0))
         IN  [mice |-> inserted, current_mouse_id |-> cur + 1,
              sent |-> send_pointer_event(inserted, device_id, "kAdd")]
    ELSE [mice |-> ms, current_mouse_id |-> cur, sent |-> <<>>]

\* UI thread: what a mouse handler leaves behind: the mice, the counter and
\* one closure in the event loop's queue per event it sent; every event
\* carries Self::current_time()
PointerStep(ms, cur, events) ==
    /\ ~panicked
    /\ nextSeq < MaxPointerEvents
    /\ cur <= MaxMice
    /\ mice' = ms
    /\ current_mouse_id' = cur
    /\ queue' = queue \o [i \in 1 .. Len(events) |->
                             [kind |-> "pointer", seq |-> nextSeq + i,
                              event |-> events[i]]]
    /\ nextSeq' = nextSeq + Len(events)
    /\ engineCalls' = [i \in 1 .. Len(events) |-> GetCurrentTime]
    /\ lastThread' = "ui"
    /\ UNCHANGED <<lastRun, nextHandle, respCount, keyboard_client, input_action,
                   editing_state, time, timers, tasks, channel_rx, local_timers,
                   runner_engine, nextBaton, engine_pointers>>
    /\ UNCHANGED <<keyVars, compVars, codecVars, viewVars>>

\* mouse_entered
mouse_entered(device_id) ==
    LET got == get_mouse(mice, current_mouse_id, device_id)
    IN  PointerStep(got.mice, got.current_mouse_id, got.sent)

\* mouse_left: a Remove is sent, then the mouse is forgotten
mouse_left(device_id) ==
    PointerStep(HashMap_remove(mice, device_id), current_mouse_id,
                send_pointer_event(mice, device_id, "kRemove"))

\* mouse_moved
mouse_moved(device_id, position) ==
    LET got == get_mouse(mice, current_mouse_id, device_id)
        moved == [got.mice EXCEPT ![device_id].position = position]
        buttons == moved[device_id].held_buttons
    IN  PointerStep(moved, got.current_mouse_id,
                    got.sent \o send_pointer_event(moved, device_id,
                                    IF buttons = 0 THEN "kHover" ELSE "kMove"))

\* mouse_buttons: a press toggles the bit of the button with ^=, a release
\* clears it; the phase depends on whether a button was held before a press
\* and on whether one is held after a release
mouse_buttons(device_id, state, button) ==
    LET got == get_mouse(mice, current_mouse_id, device_id)
        held_buttons == got.mice[device_id].held_buttons
        old_buttons_held == held_buttons # 0
        new_held == IF state = "Pressed"
                    THEN bitxor(held_buttons, button_idx(button))
                    ELSE bitandnot(held_buttons, button_idx(button))
        new_buttons_held == new_held # 0
        pressed == [got.mice EXCEPT ![device_id].held_buttons = new_held]
        phase == IF state = "Pressed"
                 THEN (IF old_buttons_held THEN "kMove" ELSE "kDown")
                 ELSE (IF new_buttons_held THEN "kMove" ELSE "kUp")
    IN  PointerStep(pressed, got.current_mouse_id,
                    got.sent \o send_pointer_event(pressed, device_id, phase))

\* Inputs of the pointer specification: two mice, the position a cursor
\* moves to, and the buttons winit names
DeviceIds == {"mouse1", "mouse2"}
Positions == {<<5, 7>>}
MouseButtons == {"Left", "Right"}
ElementStates == {"Pressed", "Released"}

PointerNext ==
    \/ \E d \in DeviceIds : mouse_entered(d)
    \/ \E d \in DeviceIds : mouse_left(d)
    \/ \E d \in DeviceIds, p \in Positions : mouse_moved(d, p)
    \/ \E d \in DeviceIds, st \in ElementStates, b \in MouseButtons :
           mouse_buttons(d, st, b)
    \/ UserEvent

PointerSpec == Init /\ [][PointerNext]_vars

---------------------------------------------------------------------------
\* Claims about pointer events

\* the step hands a pointer event to the engine
PointerSent == lastRun' # lastRun /\ lastRun'.kind = "pointer"

\* C39: of the pointer events the engine is sent for one mouse the first is
\* an Add; an Add is sent only while the mouse is not added, and every other
\* event, a Remove included, only while it is added and with the virtual id
\* of its Add, so exactly one Add lies between two Removes of the mouse; the
\* virtual id of an Add was not used by an earlier Add.
C39_PointerLifecycle ==
    [][PointerSent =>
          LET event == lastRun'.event
              known == {v \in DOMAIN engine_pointers :
                           engine_pointers[v].mouse = event.mouse}
              added == {v \in known : engine_pointers[v].added}
          IN  /\ known = {} => event.phase = "kAdd"
              /\ event.phase = "kAdd"
                    => /\ added = {}
                       /\ event.device \notin DOMAIN engine_pointers
              /\ event.phase # "kAdd" => added = {event.device}]_vars

\* C39 witness: the engine was sent an Add and a Remove for the first mouse,
\* an Add for the second and another Add for the first, with three different
\* virtual ids.
C39_Witness ==
    /\ DOMAIN engine_pointers = {0, 1, 2}
    /\ engine_pointers[0] = [mouse |-> "mouse1", added |-> FALSE]
    /\ engine_pointers[1] = [mouse |-> "mouse2", added |-> TRUE]
    /\ engine_pointers[2] = [mouse |-> "mouse1", added |-> TRUE]

\* the buttons a mouse holds, none for a mouse that is not in mice
HeldButtons(ms, device_id) ==
    IF device_id \in DOMAIN ms THEN ms[device_id].held_buttons ELSE 0

\* C40: a press or release of a button sends a Down exactly when the held
\* buttons of the mouse go from none to some and an Up exactly when they go
\* from some to none, and after a press of a button the button is held, also
\* when it was held before.
C40_DownAndUp ==
    [][\A d \in DeviceIds, st \in ElementStates, b \in MouseButtons :
          mouse_buttons(d, st, b)
          => LET old == HeldButtons(mice, d)
                 new == HeldButtons(mice', d)
                 phase == queue'[Len(queue')].event.phase
             IN  /\ (phase = "kDown") <=> (old = 0 /\ new # 0)
                 /\ (phase = "kUp") <=> (old # 0 /\ new = 0)
                 /\ st = "Pressed"
                       => bitandnot(button_idx(b), new) = 0]_vars

============================================================================
